---- MODULE Spec2Model ----
(***************************************************************************)
(* Verification model of the respiratory-sound event pipeline of           *)
(* CSE4006-PuriCare-Air-Purifier:                                           *)
(*   hardware/audio_analyzer/live_detection.py   (LiveCoughDetector)       *)
(*   hardware/simulator/core/audio_detector_wrapper.py                     *)
(*                                                (AudioDetectorWrapper)   *)
(*   hardware/tools/segmentation.py (MultiStageVAD,                        *)
(*                                   RespiratoryEventDetector)             *)
(*                                                                         *)
(* The specifications share the variables below; each one drives one       *)
(* component and leaves the others in their constructed state:             *)
(*   SpecBuffer      the rolling audio buffer fed by the audio callback    *)
(*   SpecTracker     the sliding-window event tracker and its latch        *)
(*   SpecTrackerLock the tracker's operations line by line, with the lock  *)
(*   SpecVAD         the calibrating VAD and the block detector            *)
(*   SpecCooldown    the block detector on a longer stream                 *)
(*   SpecLoop        the detection loop of the simulator wrapper           *)
(*   SpecShutdown    the loop, the save worker and stop()                  *)
(*   SpecLifecycle   start() and stop() called repeatedly                  *)
(*   SpecCapture     tools/audio_capture.py                                *)
(*   SpecClassifier  the spectral segment classifier                       *)
(*   SpecPipeline    the two-stage neural pipeline and its threshold       *)
(*   SpecDevice      the simulator's aggressive mode (core/device.py)      *)
(*                                                                         *)
(* Time is counted in clock ticks (an integer); floats of the source are   *)
(* kept exact by scaling (zcr in thousandths, confidence in hundredths)    *)
(* or by comparing squares (energies).                                     *)
(***************************************************************************)
EXTENDS Integers, Sequences, FiniteSets, TLC

VARIABLES
    \* ---- LiveCoughDetector (live_detection.py) ----
    display_buffer,             \* deque(maxlen) of flattened blocks
    pushed,                     \* history: every block appended, in order
    \* ---- AudioDetectorWrapper event tracking ----
    now,                        \* the wall clock, in ticks
    event,                      \* CoughEvent built by the loop, or None
    cough_events,               \* deque of CoughEvent, oldest first
    total_events,
    aggressive_mode_triggered,  \* the latch
    recorded,                   \* history: every event given to _track_event
    last_op,                    \* history: name of the last operation
    ret_count,                  \* history: last get_recent_event_count value
    ret_should,                 \* history: last should_trigger_... value
    follows_reset,              \* history: last query came right after a reset
    announcements,              \* history: trigger banners since last reset
    \* ---- MultiStageVAD / RespiratoryEventDetector (segmentation.py) ----
    calibration_samples,        \* vad.calibration_samples
    is_calibrated,              \* vad.is_calibrated
    vad_energy_threshold,       \* vad.energy_threshold
    event_buffer,               \* deque(maxlen) of the latest blocks
    event_cooldown,
    stats,
    ret,                        \* what the last process_block returned
    check_in,                   \* history: chunk of the last check_activity
    check_ret,                  \* history: what that check_activity returned
    classifier_ran,             \* history: the last process_block call ran
                                \* segment_classifier.classify
    calibrations,               \* history: assignments to energy_threshold
    process_calls,              \* history: calls of process_block
    \* ---- the detection thread (detection_loop_with_callback) ----
    wrapper_is_running,         \* AudioDetectorWrapper.is_running
    is_running,                 \* detector.is_running
    pc,                         \* where the detection thread stands
    blocks_waited,
    buffer_copy,
    window,
    result,
    total_windows_processed,
    total_coughs_detected,
    last_detection_time,
    save_queue,
    hops_since_event,           \* history: hops begun since the last event
    last_event_gap,             \* history: hops between the last two events
    \* ---- the buffer lock, the save worker and stop() ----
    buffer_lock,                \* "free", or the thread inside the with block
    stream_active,              \* the InputStream is delivering blocks
    stop_pc,                    \* where the caller of stop() stands
    detection_join_timed_out,   \* history: join left the thread running
    worker_join_timed_out,      \* history: join left the worker running
    stop_reported,              \* what stop() gave back to its caller
    worker_pc,                  \* where the save worker stands
    enqueued,                   \* history: everything put on save_queue
    handled,                    \* history: the items the worker has taken
    window_errors,              \* history: windows whose inference raised
    snapshot_buffer,            \* history: the deque when it was last copied
    pushed_in_flight,           \* history: a block arrived during inference
    \* ---- tools/audio_capture.py ----
    capture_pc,                 \* where the main block stands
    buffer_access,              \* history: the last access to display_buffer
    \* ---- events_lock of the wrapper and the threads using the tracker ----
    events_lock,                \* "free", or the thread inside with events_lock
    track_pc,                   \* where _track_event stands
    count_pc,                   \* where get_recent_event_count stands
    tracker_access,             \* history: the last write to tracker state
    \* ---- start()/stop() called repeatedly on the wrapper ----
    starts,                     \* start() calls that went on to a detector
    last_start,                 \* history: how the last start() call went
    lingering_threads,          \* detection threads of earlier detectors
                                \* that have not ended yet
    \* ---- CoughDetectionPipeline.predict, called on its own ----
    pipe_prob,                  \* what the detection network gave
    pipe_result,                \* the dict predict returned
    classifier_calls,           \* classification_model.predict calls made
    config_detection_confidence, \* DetectionConfig.detection_confidence
    \* ---- AirPurifierSimulator (device.py), the on_event callback ----
    aggressive_mode,            \* device.aggressive_mode
    auto_mode,                  \* device.auto_mode
    online,                     \* device.online
    fan_speed,                  \* device.fan_speed, 0..10
    device_pc,                  \* where handle_cough_event stands
    alerts_sent,                \* history: send_aggressive_mode_alert calls
    alerts_since_activation,    \* history: of them, since aggressive_mode
                                \* last went from False to True
    boosts_since_activation,    \* history: fan boosts since then
    \* ---- LightweightSegmentClassifier.classify, called on its own ----
    clf_features,               \* the features of the last chunk classified
    clf_score                   \* the score classify returned for them

None == "None"
\* the pending-event slot when the loop holds no event
NoEvent == [cough_type |-> None, confidence |-> 0, timestamp |-> 0,
            datetime |-> [tick |-> 0]]

Min(a, b) == IF a < b THEN a ELSE b
Max(a, b) == IF a > b THEN a ELSE b
Ceil(a, b) == (a + b - 1) \div b

(***************************************************************************)
(* Bounds.  The configuration values are those of the dataclasses, scaled  *)
(* down so that the buffers and windows stay enumerable.                   *)
(***************************************************************************)
sample_rate == 2            \* DetectionConfig.sample_rate (8000), scaled
block_size == 2             \* DetectionConfig.block_size (2048), scaled
buffer_duration == 2        \* DetectionConfig.buffer_duration (10.0), scaled
MaxSample == 1              \* sample values are 0..MaxSample
MaxExtraPushes == 2         \* pushes allowed beyond the buffer capacity
tracking_window == 2        \* timedelta(hours=3.0), in ticks
aggressive_threshold == 2   \* aggressive_threshold (5), scaled
MaxTime == 5                \* the clock stops here
MaxEvents == 3              \* events recorded per run
AudioConfig_sample_rate == 2    \* AudioConfig.sample_rate (8000), scaled
AudioConfig_block_size == 1     \* AudioConfig.block_size (800), scaled
calibration_window == 1         \* MultiStageVAD.calibration_window (5 s), scaled
event_window_s == 2             \* AudioConfig.event_window_s (2.0)
MaxBlocks == 6                  \* process_block calls per run
MaxStreamBlocks == 7            \* process_block calls per run of SpecCooldown
MaxLoopPushes == 3              \* blocks pushed while the loop runs
MaxShutdownPushes == 2          \* blocks pushed in the shutdown runs
MaxKeyPresses == 2              \* buffers queued by key presses per run
MaxWindows == 2                 \* windows the loop evaluates per run

channels == 1

Samples == 0..MaxSample

(***************************************************************************)
(* LiveCoughDetector: the rolling buffer                                   *)
(***************************************************************************)

\* indata as the driver delivers it, block_size frames of `channels`
\* samples: the steady blocks (one value throughout) and a block that
\* alternates between silence and full scale
InData ==
    { [f \in 1..block_size |-> [c \in 1..channels |-> s]] : s \in Samples }
    \cup { [f \in 1..block_size |->
              [c \in 1..channels |-> IF f % 2 = 1 THEN 0 ELSE MaxSample]] }

RECURSIVE flatten(_)
\* numpy's ndarray.flatten() of a (frames, channels) array: row-major
flatten(indata) ==
    IF indata = <<>> THEN <<>> ELSE Head(indata) \o flatten(Tail(indata))

total_samples == sample_rate * buffer_duration
deque_maxlen_blocks == Ceil(total_samples, block_size)

\* collections.deque.append on a deque with maxlen, dropping the wrong end
deque_append_drop_newest(d, x, maxlen) ==
    IF Len(d) >= maxlen THEN d ELSE Append(d, x)

\* collections.deque.append on a deque with maxlen
deque_append(d, x, maxlen) ==
    IF maxlen = 0 THEN d
    ELSE IF Len(d) >= maxlen THEN Tail(d) \o <<x>>
    ELSE Append(d, x)

bufferVars == <<display_buffer, pushed>>

\* LiveCoughDetector._audio_callback
_audio_callback(indata) ==
    /\ display_buffer' = deque_append(display_buffer, flatten(indata),
                                      deque_maxlen_blocks)
    /\ pushed' = Append(pushed, flatten(indata))

InitBuffer ==
    /\ display_buffer = <<>>
    /\ pushed = <<>>

(***************************************************************************)
(* AudioDetectorWrapper: event tracking                                    *)
(***************************************************************************)

\* what the pipeline reports for a positive window
Results == { [cough_type |-> "dry", classification_confidence |-> 90],
             [cough_type |-> "wet", classification_confidence |-> 75] }

\* datetime.fromtimestamp on the tick clock: the same instant as a datetime
fromtimestamp(ts) == [tick |-> ts]

\* datetime.now() and datetime - timedelta
datetime_now == [tick |-> now]
datetime_sub(dt, delta) == [tick |-> dt.tick - delta]
datetime_lt(a, b) == a.tick < b.tick

\* CoughEvent.__init__
CoughEvent(cough_type, confidence, timestamp) ==
    [cough_type |-> cough_type, confidence |-> confidence,
     timestamp |-> timestamp, datetime |-> fromtimestamp(timestamp)]

RECURSIVE popleft_while_old(_, _)
popleft_while_old(events, cutoff_time) ==
    IF events # <<>> /\ datetime_lt(Head(events).datetime, cutoff_time)
    THEN popleft_while_old(Tail(events), cutoff_time)
    ELSE events

\* _cleanup_old_events evicting the boundary event too (<= for <)
_cleanup_old_events_inclusive(events) ==
    LET cutoff_time == datetime_sub(datetime_now, tracking_window - 1)
    IN  popleft_while_old(events, cutoff_time)

\* AudioDetectorWrapper._cleanup_old_events
_cleanup_old_events(events) ==
    LET cutoff_time == datetime_sub(datetime_now, tracking_window)
    IN  popleft_while_old(events, cutoff_time)

trackerVars == <<now, event, cough_events, total_events,
                 aggressive_mode_triggered, recorded, last_op, ret_count,
                 ret_should, follows_reset, announcements>>

\* _track_event that re-announces on every record over the threshold
_track_event_no_latch(ev) ==
    LET kept == _cleanup_old_events(Append(cough_events, ev))
        recent_count == Len(kept)
        trigger == recent_count >= aggressive_threshold
    IN  /\ cough_events' = kept
        /\ total_events' = total_events + 1
        /\ aggressive_mode_triggered' = trigger
        /\ announcements' = IF trigger THEN announcements + 1
                            ELSE announcements
        /\ recorded' = Append(recorded, ev)

\* AudioDetectorWrapper._track_event, under events_lock
_track_event(ev) ==
    LET kept == _cleanup_old_events(Append(cough_events, ev))
        recent_count == Len(kept)
        trigger == /\ recent_count >= aggressive_threshold
                   /\ ~aggressive_mode_triggered
    IN  /\ cough_events' = kept
        /\ total_events' = total_events + 1
        /\ aggressive_mode_triggered' = (aggressive_mode_triggered \/ trigger)
        /\ announcements' = IF trigger THEN announcements + 1
                            ELSE announcements
        /\ recorded' = Append(recorded, ev)

\* get_recent_event_count that skips the cleanup
get_recent_event_count_stale(events) == events

\* AudioDetectorWrapper.get_recent_event_count, under events_lock:
\* the deque after the cleanup; the count returned is its length
get_recent_event_count(events) == _cleanup_old_events(events)

\* reset_aggressive_mode that also forgets the recorded events
reset_aggressive_mode_clearing(events) == <<>>

\* AudioDetectorWrapper.reset_aggressive_mode leaves the deque alone
reset_aggressive_mode(events) == events

InitTracker ==
    /\ now = 0
    /\ event = NoEvent
    /\ cough_events = <<>>
    /\ total_events = 0
    /\ aggressive_mode_triggered = FALSE
    /\ recorded = <<>>
    /\ last_op = "init"
    /\ ret_count = 0
    /\ ret_should = FALSE
    /\ follows_reset = FALSE
    /\ announcements = 0

(***************************************************************************)
(* segmentation.py: MultiStageVAD, LightweightSegmentClassifier,           *)
(* RespiratoryEventDetector                                                *)
(*                                                                         *)
(* An audio block is known by what the code computes from it: ms, the mean *)
(* square of its raw samples (calibrate); energy2, the square of the RMS   *)
(* of the high-pass filtered block, and zcr, its zero-crossing rate in     *)
(* thousandths (calculate_features).  A real number q is the pair          *)
(* [num, den]; energies are compared by their squares.                     *)
(***************************************************************************)

\* AudioConfig, the floats scaled to integers
vad_energy_multiplier_x10 == 17         \* 1.7
vad_zcr_min == 20                       \* 0.02, in thousandths
vad_zcr_max == 500                      \* 0.5, in thousandths
segment_classifier_threshold == 30      \* 0.3, in hundredths

\* EventType
SILENCE == "SILENCE"
SPEECH == "SPEECH"
NOISE == "NOISE"
RESPIRATORY_EVENT == "RESPIRATORY_EVENT"

\* float('nan') as a confidence
NaN == -1

\* vad.energy_threshold before calibration (None), and a computed one:
\* the threshold whose square is num/den
NoThreshold == [none |-> TRUE, num |-> 0, den |-> 1]
Threshold(num, den) == [none |-> FALSE, num |-> num, den |-> den]

\* the blocks the microphone delivers to process_block
Blocks == { [ms |-> 0,   energy2 |-> 0,   zcr |-> 0],     \* digital silence
            [ms |-> 100, energy2 |-> 289, zcr |-> 20],    \* burst, mid zcr
            [ms |-> 100, energy2 |-> 400, zcr |-> 501],   \* fricative
            [ms |-> 100, energy2 |-> 400, zcr |-> 19] }   \* rumble

\* the chunks a caller may hand to check_activity: a filtered chunk without
\* energy has no zero crossing
Chunks == { c \in [ms : {100}, energy2 : {0, 288, 289},
                   zcr : {0, 19, 20, 500, 501}] :
              c.energy2 = 0 => c.zcr = 0 }

RECURSIVE SumMs(_)
SumMs(blocks) ==
    IF blocks = <<>> THEN 0 ELSE Head(blocks).ms + SumMs(Tail(blocks))

\* floor of the square root
ISqrt(n) == CHOOSE k \in 0..n : k * k <= n /\ (k + 1) * (k + 1) > n

\* the threshold left at baseline_rms, the multiplier forgotten
baseline_threshold_no_multiplier(samples) ==
    Threshold(SumMs(samples), Len(samples))

\* energy_threshold = baseline_rms * vad_energy_multiplier, squared:
\* mean(baseline_audio**2) * multiplier**2 over equal-length blocks
baseline_threshold(samples) ==
    Threshold(SumMs(samples) * vad_energy_multiplier_x10
                             * vad_energy_multiplier_x10,
              Len(samples) * 100)

\* len(calibration_samples) < calibration_window * (sample_rate / block_size)
calibration_incomplete(samples) ==
    Len(samples) * AudioConfig_block_size
        < calibration_window * AudioConfig_sample_rate

\* MultiStageVAD.calculate_features: (energy squared, zcr)
calculate_features(audio_chunk) == <<audio_chunk.energy2, audio_chunk.zcr>>

\* a check_activity without its energy gate
energy_lt_never(energy2, thr) == FALSE

\* energy < self.energy_threshold, on the squares
energy_lt(energy2, thr) == energy2 * thr.den < thr.num

\* min(energy / self.energy_threshold, 1.0), in hundredths; numpy floats
\* divide by zero to inf (nan for 0/0) and min(nan, 1.0) is nan
min_ratio_1(energy2, thr) ==
    IF thr.num = 0 THEN (IF energy2 = 0 THEN NaN ELSE 100)
    ELSE IF energy2 * thr.den >= thr.num THEN 100
    ELSE ISqrt((10000 * energy2 * thr.den) \div thr.num)

\* check_activity with the zcr test ahead of the energy test
check_activity_zcr_first(audio_chunk, calibrated, thr) ==
    IF ~calibrated THEN <<FALSE, SILENCE, 0>>
    ELSE LET f == calculate_features(audio_chunk)
             energy2 == f[1]
             zcr == f[2]
         IN  IF zcr > vad_zcr_max THEN <<TRUE, SPEECH, 60>>
             ELSE IF energy_lt(energy2, thr) THEN <<FALSE, SILENCE, 0>>
             ELSE IF zcr < vad_zcr_min THEN <<FALSE, NOISE, 20>>
             ELSE <<TRUE, RESPIRATORY_EVENT, min_ratio_1(energy2, thr)>>

\* check_activity with the boundaries on the wrong side (<= and >=)
check_activity_inclusive(audio_chunk, calibrated, thr) ==
    IF ~calibrated THEN <<FALSE, SILENCE, 0>>
    ELSE LET f == calculate_features(audio_chunk)
             energy2 == f[1]
             zcr == f[2]
         IN  IF energy2 * thr.den <= thr.num THEN <<FALSE, SILENCE, 0>>
             ELSE IF zcr <= vad_zcr_min THEN <<FALSE, NOISE, 20>>
             ELSE IF zcr >= vad_zcr_max THEN <<TRUE, SPEECH, 60>>
             ELSE <<TRUE, RESPIRATORY_EVENT, min_ratio_1(energy2, thr)>>

\* check_activity without the calibration guard
check_activity_unguarded(audio_chunk, calibrated, thr) ==
    LET f == calculate_features(audio_chunk)
        energy2 == f[1]
        zcr == f[2]
    IN  IF energy_lt(energy2, thr) THEN <<FALSE, SILENCE, 0>>
        ELSE IF zcr < vad_zcr_min THEN <<FALSE, NOISE, 20>>
        ELSE IF zcr > vad_zcr_max THEN <<TRUE, SPEECH, 60>>
        ELSE <<TRUE, RESPIRATORY_EVENT, min_ratio_1(energy2, thr)>>

\* MultiStageVAD.check_activity: (is_active, event_type, confidence)
check_activity(audio_chunk, calibrated, thr) ==
    IF ~calibrated THEN <<FALSE, SILENCE, 0>>
    ELSE LET f == calculate_features(audio_chunk)
             energy2 == f[1]
             zcr == f[2]
         IN  IF energy_lt(energy2, thr) THEN <<FALSE, SILENCE, 0>>
             ELSE IF zcr < vad_zcr_min THEN <<FALSE, NOISE, 20>>
             ELSE IF zcr > vad_zcr_max THEN <<TRUE, SPEECH, 60>>
             ELSE <<TRUE, RESPIRATORY_EVENT, min_ratio_1(energy2, thr)>>

\* the spectral features extract_features may find in an event buffer:
\* low_freq_energy in hundredths, the others in Hz
Features == [low_freq_energy : {40, 41}, spectral_centroid : {200},
             peak_freq : {100}, spectral_rolloff : {1999, 2000}]

\* classify with every boundary on the wrong side
classify_inclusive(features) ==
      (IF features.low_freq_energy >= 40 THEN 30 ELSE 0)
    + (IF 200 <= features.spectral_centroid
          /\ features.spectral_centroid <= 800
       THEN 30 ELSE 0)
    + (IF 100 <= features.peak_freq /\ features.peak_freq <= 600
       THEN 20 ELSE 0)
    + (IF features.spectral_rolloff <= 2000 THEN 20 ELSE 0)

\* LightweightSegmentClassifier.classify, the score in hundredths
classify(features) ==
      (IF features.low_freq_energy > 40 THEN 30 ELSE 0)
    + (IF 200 < features.spectral_centroid /\ features.spectral_centroid < 800
       THEN 30 ELSE 0)
    + (IF 100 < features.peak_freq /\ features.peak_freq < 600
       THEN 20 ELSE 0)
    + (IF features.spectral_rolloff < 2000 THEN 20 ELSE 0)

\* what extract_features can return for a chunk, boundary values included:
\* a chunk of zeros has magnitude sum 0, so low_freq_energy and
\* spectral_centroid are 0/0 = nan (every comparison with nan is false, as
\* is every one the rules make with -1) while peak_freq and
\* spectral_rolloff are freqs[0] = 0
ClassifierInputs == [low_freq_energy : {NaN, 40, 41},
                     spectral_centroid : {NaN, 200, 201, 799, 800},
                     peak_freq : {0, 100, 101, 599, 600},
                     spectral_rolloff : {0, 1999, 2000}]

\* nothing classified yet (no frequency is negative)
NoFeatures == [low_freq_energy |-> 0, spectral_centroid |-> 0,
               peak_freq |-> -1, spectral_rolloff |-> -1]

classifierVars == <<clf_features, clf_score>>

InitClassifier ==
    /\ clf_features = NoFeatures
    /\ clf_score = 0

\* RespiratoryEventDetector.__init__
event_buffer_samples == event_window_s * AudioConfig_sample_rate
event_buffer_blocks == Ceil(event_buffer_samples, AudioConfig_block_size)
\* a cooldown one block short of a second
cooldown_blocks_short ==
    (AudioConfig_sample_rate \div AudioConfig_block_size) - 1

\* self.cooldown_blocks = int(1.0 * sample_rate / block_size), 1 second
cooldown_blocks == AudioConfig_sample_rate \div AudioConfig_block_size

vadVars == <<calibration_samples, is_calibrated, vad_energy_threshold,
             event_buffer, event_cooldown, stats, ret, check_in, check_ret,
             classifier_ran, calibrations, process_calls>>

NoMetadata == [timestamp |-> 0, vad_confidence |-> 0, classifier_score |-> 0,
               event_type |-> None,
               buffer_length_s |-> [num |-> 0, den |-> 1]]
NoChunk == [ms |-> 0, energy2 |-> 0, zcr |-> 0]

\* return False, None, None
ReturnNoEvent == [should_save |-> FALSE, event_data |-> <<>>,
                  metadata |-> NoMetadata]

\* MultiStageVAD.calibrate
calibrate(audio_chunk) ==
    IF calibration_incomplete(calibration_samples)
    THEN /\ calibration_samples' = Append(calibration_samples, audio_chunk)
         /\ UNCHANGED <<is_calibrated, vad_energy_threshold, calibrations>>
    ELSE IF ~is_calibrated
    THEN /\ vad_energy_threshold' = baseline_threshold(calibration_samples)
         /\ is_calibrated' = TRUE
         /\ calibrations' = calibrations + 1
         /\ UNCHANGED calibration_samples
    ELSE UNCHANGED <<calibration_samples, is_calibrated,
                     vad_energy_threshold, calibrations>>

Bump(st, key) == [st EXCEPT ![key] = @ + 1]

\* an accepted event counted as saved only
stats_on_event_saved_only(st) == Bump(st, "events_saved")

\* process_block, lines 244 and 260: an accepted event is counted in
\* classifier_triggered and in events_saved
stats_on_event(st) == Bump(Bump(st, "classifier_triggered"), "events_saved")

\* a quick filter that lets speech through to the classifier
skipped_types_noise_only == {NOISE}

\* process_block, lines 232-238: the event types returned without running
\* the segment classifier
skipped_types == {SPEECH, NOISE}

\* RespiratoryEventDetector.process_block; `features` is what
\* extract_features finds in the concatenated event buffer
process_block(audio_block, features) ==
    LET st1 == Bump(stats, "blocks_processed")
        buf == deque_append(event_buffer, audio_block, event_buffer_blocks)
        act == check_activity(audio_block, is_calibrated,
                              vad_energy_threshold)
        is_active == act[1]
        event_type == act[2]
        vad_confidence == act[3]
        classifier_score == classify(features)
        vadFrame == UNCHANGED <<calibration_samples, is_calibrated,
                                vad_energy_threshold, calibrations>>
    IN
    /\ process_calls' = process_calls + 1
    /\ event_buffer' = buf
    /\ IF event_cooldown > 0
       THEN /\ event_cooldown' = event_cooldown - 1
            /\ stats' = st1
            /\ ret' = ReturnNoEvent
            /\ check_in' = NoChunk /\ check_ret' = <<FALSE, None, 0>>
            /\ classifier_ran' = FALSE
            /\ vadFrame
       ELSE IF ~is_calibrated
       THEN /\ calibrate(audio_block)
            /\ stats' = st1
            /\ ret' = ReturnNoEvent
            /\ check_in' = NoChunk /\ check_ret' = <<FALSE, None, 0>>
            /\ classifier_ran' = FALSE
            /\ UNCHANGED event_cooldown
       ELSE /\ check_in' = audio_block /\ check_ret' = act
            /\ vadFrame
            /\ IF ~is_active
               THEN /\ stats' = st1
                    /\ ret' = ReturnNoEvent
                    /\ classifier_ran' = FALSE
                    /\ UNCHANGED event_cooldown
               ELSE IF event_type \in skipped_types
               THEN /\ stats' = Bump(st1, "vad_triggered")
                    /\ ret' = ReturnNoEvent
                    /\ classifier_ran' = FALSE
                    /\ UNCHANGED event_cooldown
               ELSE IF classifier_score < segment_classifier_threshold
               THEN /\ stats' = Bump(st1, "vad_triggered")
                    /\ ret' = ReturnNoEvent
                    /\ classifier_ran' = TRUE
                    /\ UNCHANGED event_cooldown
               ELSE /\ classifier_ran' = TRUE
                    /\ stats' = stats_on_event(Bump(st1, "vad_triggered"))
                    /\ event_cooldown' = cooldown_blocks
                    /\ ret' = [should_save |-> TRUE,
                               event_data |-> buf,
                               metadata |->
                                 [timestamp |-> now,
                                  vad_confidence |-> vad_confidence,
                                  classifier_score |-> classifier_score,
                                  event_type |-> event_type,
                                  buffer_length_s |->
                                    [num |-> Len(buf) * AudioConfig_block_size,
                                     den |-> AudioConfig_sample_rate]]]

InitVAD ==
    /\ calibration_samples = <<>>
    /\ is_calibrated = FALSE
    /\ vad_energy_threshold = NoThreshold
    /\ event_buffer = <<>>
    /\ event_cooldown = 0
    /\ stats = [blocks_processed |-> 0, vad_triggered |-> 0,
                classifier_triggered |-> 0, events_saved |-> 0]
    /\ ret = ReturnNoEvent
    /\ check_in = NoChunk
    /\ check_ret = <<FALSE, None, 0>>
    /\ classifier_ran = FALSE
    /\ calibrations = 0
    /\ process_calls = 0

(***************************************************************************)
(* The detection thread: detection_loop_with_callback, which              *)
(* AudioDetectorWrapper._create_detector installs in place of              *)
(* LiveCoughDetector._detection_loop                                       *)
(***************************************************************************)

\* DetectionConfig, the floats scaled to integers
detection_window_x10 == 15      \* detection_window = 1.5 s
hop_length_x10 == 5             \* hop_length = 0.5 s
energy_threshold == 1           \* 0.01, samples being in units of 0.01
save_detections == TRUE
use_energy_prefilter == TRUE
\* ModelConfig.confidence_threshold, in hundredths
confidence_threshold == 70

detection_samples == (detection_window_x10 * sample_rate) \div 10
hop_samples == (hop_length_x10 * sample_rate) \div 10
hop_blocks == Max(1, hop_samples \div block_size)

loopVars == <<wrapper_is_running, is_running, pc, blocks_waited, buffer_copy,
              window, result, total_windows_processed, total_coughs_detected,
              last_detection_time, save_queue, hops_since_event,
              last_event_gap>>

RECURSIVE concatenate(_)
\* np.concatenate of a list of 1-D arrays
concatenate(arrays) ==
    IF arrays = <<>> THEN <<>>
    ELSE Head(arrays) \o concatenate(Tail(arrays))

RECURSIVE SumSquares(_)
SumSquares(audio) ==
    IF audio = <<>> THEN 0
    ELSE Head(audio) * Head(audio) + SumSquares(Tail(audio))

\* LiveCoughDetector._energy_prefilter: sqrt(mean(audio ** 2)) >= threshold
_energy_prefilter(audio) ==
    IF ~use_energy_prefilter THEN TRUE
    ELSE SumSquares(audio) >= energy_threshold * energy_threshold * Len(audio)

\* a variant that cuts the oldest samples, full_buffer[:detection_samples]
tail_window_head(full_buffer) ==
    IF detection_samples >= Len(full_buffer)
    THEN full_buffer
    ELSE SubSeq(full_buffer, 1, detection_samples)

\* full_buffer[-detection_samples:]
tail_window(full_buffer) ==
    IF detection_samples = 0 \/ detection_samples >= Len(full_buffer)
    THEN full_buffer
    ELSE SubSeq(full_buffer, Len(full_buffer) - detection_samples + 1,
                Len(full_buffer))

\* the probabilities the detection network may give, in hundredths
Probs == {confidence_threshold - 1, confidence_threshold}

NoResult == [is_cough |-> FALSE, detection_confidence |-> 0,
             cough_type |-> None, classification_confidence |-> 0]

\* CoughDetectionPipeline.predict: the detector's probability against the
\* threshold, the classifier's answer only for a positive
pipeline_predict(prob, class) ==
    LET is_cough == prob >= confidence_threshold
    IN  IF is_cough
        THEN [is_cough |-> TRUE, detection_confidence |-> prob,
              cough_type |-> class.cough_type,
              classification_confidence |-> class.classification_confidence]
        ELSE [is_cough |-> FALSE, detection_confidence |-> prob,
              cough_type |-> None, classification_confidence |-> 0]

\* one second's worth of hops, and the value at which the hop counters
\* kept for the cooldown property stop counting
cooldown_hops == 10 \div hop_length_x10
CooldownCap == cooldown_hops + 1

InitLoop ==
    /\ wrapper_is_running = FALSE
    /\ is_running = FALSE
    /\ pc = "idle"
    /\ blocks_waited = 0
    /\ buffer_copy = <<>>
    /\ window = <<>>
    /\ result = NoResult
    /\ total_windows_processed = 0
    /\ total_coughs_detected = 0
    /\ last_detection_time = 0
    /\ save_queue = <<>>
    /\ hops_since_event = CooldownCap
    /\ last_event_gap = CooldownCap

(***************************************************************************)
(* The threads around the detection loop: the buffer lock, the save queue  *)
(* and its worker, and stop()                                              *)
(***************************************************************************)

\* the blocks the stream delivers while the detector runs: silence and
\* full scale
StreamData ==
    { [f \in 1..block_size |-> [c \in 1..channels |-> s]] :
        s \in {0, MaxSample} }

\* save_queue.put(None): the stop signal, shaped like a queued detection
Poison == [audio |-> <<>>, result |-> NoResult, timestamp |-> -1]

\* queue.Queue.put on an unbounded queue: never blocks
queue_put(q, x) == Append(q, x)

\* a queue handing out its newest entry first
queue_get_lifo(q) == <<q[Len(q)], SubSeq(q, 1, Len(q) - 1)>>

\* queue.Queue.get on a non-empty queue: (the oldest entry, what is left)
queue_get(q) == <<Head(q), Tail(q)>>

\* a with block that keeps the lock after the copy
lock_after_with_held == "detection"

\* buffer_lock once `with detector.buffer_lock:` is left, by falling off
\* its end or by the continue inside it
lock_after_with == "free"

\* buffer_copy naming the deque itself, no copy made
list_copy_shared(copy, live) == live

\* what buffer_copy reads as after the deque has become `live`:
\* list(display_buffer) built a new list, so the blocks it was built from
list_copy(copy, live) == copy

\* an except clause that lets the exception end the thread
except_reraise == "done"

\* the detection loop's except clause, lines 207-209: print and continue
except_continue == "while"

\* a save worker whose except clause leaves the loop
except_break == "done"

\* the save worker's except clause, lines 257-258: print, and the
\* while True goes round again
except_print == "get"

\* a join that waits until the thread has ended
join_returns_when_done(thread_done) == thread_done

\* Thread.join(timeout=2) returns once the thread has ended or the timeout
\* has run out, whichever comes first: it can always return
join_returns(thread_done) == TRUE

\* what stop() gives its caller: it ends by printing the statistics and
\* returns None, and AudioDetectorWrapper.stop prints "stopped"
stop_return == "ok"

lockVars == <<buffer_lock, stream_active>>
stopVars == <<stop_pc, detection_join_timed_out, worker_join_timed_out,
              stop_reported>>
workerVars == <<worker_pc, enqueued, handled>>
hopVars == <<window_errors, snapshot_buffer, pushed_in_flight>>
threadVars == <<lockVars, stopVars, workerVars, hopVars>>

InitThreads ==
    /\ buffer_lock = "free"
    /\ stream_active = FALSE
    /\ stop_pc = "idle"
    /\ detection_join_timed_out = FALSE
    /\ worker_join_timed_out = FALSE
    /\ stop_reported = "none"
    /\ worker_pc = "idle"
    /\ enqueued = <<>>
    /\ handled = <<>>
    /\ window_errors = 0
    /\ snapshot_buffer = <<>>
    /\ pushed_in_flight = FALSE

(***************************************************************************)
(* tools/audio_capture.py: the capture program.  Its module-level          *)
(* display_buffer, buffer_lock and save_queue have the shape of the        *)
(* detector's (AudioConfig there holds the same sample_rate, block_size    *)
(* and a 10 s audio_window) and are kept in the same variables.            *)
(***************************************************************************)

MANUAL_CAPTURE_MODE == TRUE
RMS_THRESHOLD == 2              \* 0.02, samples being in units of 0.01

\* save_queue.put(None) in the capture program, shaped like its items
CapturePoison == [data |-> <<>>, prefix |-> None]

\* no access to display_buffer made yet
NoAccess == [thread |-> "none", op |-> "none", locked |-> TRUE]

\* an access to display_buffer by `thread`: it is made under the lock when
\* that thread is inside a with buffer_lock block
Access(thread, op) ==
    [thread |-> thread, op |-> op, locked |-> buffer_lock = thread]

\* rms > RMS_THRESHOLD for rms = sqrt(mean(window ** 2))
rms_over_threshold(audio) ==
    SumSquares(audio) > RMS_THRESHOLD * RMS_THRESHOLD * Len(audio)

\* full_buffer[-total_samples:]
window_buffered(full_buffer) ==
    IF total_samples >= Len(full_buffer) THEN full_buffer
    ELSE SubSeq(full_buffer, Len(full_buffer) - total_samples + 1,
                Len(full_buffer))

\* the detection thread's and the wrapper's own variables
loopLocals == <<wrapper_is_running, is_running, pc, blocks_waited,
                buffer_copy, window, result, total_windows_processed,
                total_coughs_detected, last_detection_time,
                hops_since_event, last_event_gap>>

captureVars == <<capture_pc, buffer_access>>

InitCapture ==
    /\ capture_pc = "idle"
    /\ buffer_access = NoAccess

(***************************************************************************)
(* events_lock: _track_event and get_recent_event_count run line by line   *)
(* inside with self.events_lock; reset_aggressive_mode is a bare           *)
(* assignment                                                              *)
(***************************************************************************)

\* no write to the tracker made yet
NoWrite == [thread |-> "none", op |-> "none", locked |-> TRUE]

\* a write to the tracker by `thread`: it is made under the lock when that
\* thread is inside a with self.events_lock block
Write(thread, op) ==
    [thread |-> thread, op |-> op, locked |-> events_lock = thread]

trackerLockVars == <<events_lock, track_pc, count_pc, tracker_access>>

InitTrackerLock ==
    /\ events_lock = "free"
    /\ track_pc = "idle"
    /\ count_pc = "idle"
    /\ tracker_access = NoWrite

(***************************************************************************)
(* The wrapper's life cycle: start() builds a new LiveCoughDetector each   *)
(* time, stop() leaves the old one behind                                  *)
(***************************************************************************)

\* start() calls explored
MaxStarts == 2

\* what start() does with the exception of a stream that cannot be opened
\* or started, when the handler swallows it
start_except_swallowed == "ok"

\* live_detection.py lines 283-285 and wrapper lines 274-277: both handlers
\* re-raise, start() ends with the exception
start_except == "raised"

\* sd.InputStream(...) is constructed once per start(), inside one try
stream_opens_per_start == 1

NoStart == [opens |-> 0, failed |-> FALSE, reported |-> "none"]

lifecycleVars == <<starts, last_start, lingering_threads>>

InitLifecycle ==
    /\ starts = 0
    /\ last_start = NoStart
    /\ lingering_threads = 0

(***************************************************************************)
(* models.py: CoughDetectionModel.predict and CoughDetectionPipeline.      *)
(* predict.  A field that may hold None is a sequence: <<>> for None,      *)
(* <<v>> for the value v.                                                  *)
(***************************************************************************)

Null == <<>>
Some(v) == <<v>>

\* the sigmoid output of the detection network, in hundredths
PipelineProbs == 0..100

\* what classification_model.predict may return: bin_id, bin_name and the
\* softmax maximum, in hundredths
ClassifierAnswers ==
    { [bin_id |-> 0, bin_name |-> "dry", confidence |-> 90],
      [bin_id |-> 1, bin_name |-> "wet", confidence |-> 75],
      [bin_id |-> 2, bin_name |-> "whooping", confidence |-> 34] }

\* CoughDetectionModel.predict, lines 126-137, called without a threshold
detection_model_predict(prob) ==
    [is_cough |-> prob >= confidence_threshold, confidence |-> prob]

\* the pipeline running its second stage on every window
stage_two_always(is_cough) == TRUE

\* CoughDetectionPipeline.predict, line 300: if is_cough
stage_two(is_cough) == is_cough

\* CoughDetectionPipeline.predict, lines 289-309
CoughDetectionPipeline_predict(prob, answer) ==
    LET d == detection_model_predict(prob)
        first == [is_cough |-> d.is_cough,
                  detection_confidence |-> d.confidence,
                  cough_type |-> Null,
                  cough_type_id |-> Null,
                  classification_confidence |-> Null]
    IN  IF stage_two(d.is_cough)
        THEN [first EXCEPT !.cough_type = Some(answer.bin_name),
                           !.cough_type_id = Some(answer.bin_id),
                           !.classification_confidence =
                               Some(answer.confidence)]
        ELSE first

NoPipelineResult == [is_cough |-> FALSE, detection_confidence |-> 0,
                     cough_type |-> Null, cough_type_id |-> Null,
                     classification_confidence |-> Null]

\* the values --confidence may give DetectionConfig.detection_confidence, in
\* hundredths; 70 is the default of the argument and of the dataclass
Confidences == {50, 70, 90}

pipelineVars == <<pipe_prob, pipe_result, classifier_calls,
                  config_detection_confidence>>

InitPipeline ==
    /\ pipe_prob = 0
    /\ pipe_result = NoPipelineResult
    /\ classifier_calls = 0
    /\ config_detection_confidence = 70

(***************************************************************************)
(* device.py: AirPurifierSimulator.handle_cough_event is the wrapper's     *)
(* on_event callback                                                       *)
(***************************************************************************)

\* device.aggressive_mode_fan_boost and the top of the fan scale
aggressive_mode_fan_boost == 3
fan_speed_max == 10

deviceCtlVars == <<auto_mode, online, fan_speed, device_pc, alerts_sent,
                   alerts_since_activation, boosts_since_activation>>
deviceVars == <<aggressive_mode, deviceCtlVars>>

\* AirPurifierSimulator.__init__, lines 56-64
InitDevice ==
    /\ aggressive_mode = FALSE
    /\ auto_mode = FALSE
    /\ online = FALSE
    /\ fan_speed = 0
    /\ device_pc = "idle"
    /\ alerts_sent = 0
    /\ alerts_since_activation = 0
    /\ boosts_since_activation = 0

(***************************************************************************)
(* SpecBuffer: the audio callback alone                                    *)
(***************************************************************************)
AudioCallback ==
    /\ Len(pushed) < deque_maxlen_blocks + MaxExtraPushes
    /\ \E indata \in InData : _audio_callback(indata)
    /\ UNCHANGED <<trackerVars, vadVars, loopVars, classifierVars,
                   deviceVars, pipelineVars, lifecycleVars, trackerLockVars,
                   captureVars,
                   threadVars>>

vars == <<bufferVars, trackerVars, vadVars, loopVars, classifierVars,
          threadVars, captureVars, trackerLockVars, lifecycleVars,
          pipelineVars, deviceVars>>

Init ==
    /\ InitBuffer /\ InitTracker /\ InitVAD /\ InitLoop
    /\ InitClassifier /\ InitThreads /\ InitCapture
    /\ InitTrackerLock /\ InitLifecycle /\ InitPipeline
    /\ InitDevice

NextBuffer == AudioCallback

SpecBuffer == Init /\ [][NextBuffer]_vars

(***************************************************************************)
(* SpecTracker: one detection thread recording events, status queries and  *)
(* the latch reset, against an advancing clock                             *)
(***************************************************************************)

\* time passes
Tick ==
    /\ now < MaxTime
    /\ now' = now + 1
    /\ last_op' = "tick"
    /\ follows_reset' = FALSE
    /\ UNCHANGED <<event, cough_events, total_events,
                   aggressive_mode_triggered, recorded, announcements>>
    /\ ret_count' = 0 /\ ret_should' = FALSE
    /\ UNCHANGED <<bufferVars, vadVars, loopVars, classifierVars, deviceVars,
                   pipelineVars, lifecycleVars, trackerLockVars, captureVars,
                   threadVars>>

\* detection loop, lines 164-173: a positive window becomes a CoughEvent
\* stamped with time.time()
CreateEvent ==
    /\ event = NoEvent
    /\ total_events < MaxEvents
    /\ \E class \in Results :
          event' = CoughEvent(class.cough_type,
                              class.classification_confidence, now)
    /\ last_op' = "create"
    /\ follows_reset' = FALSE
    /\ UNCHANGED <<now, cough_events, total_events,
                   aggressive_mode_triggered, recorded, announcements>>
    /\ ret_count' = 0 /\ ret_should' = FALSE
    /\ UNCHANGED <<bufferVars, vadVars, loopVars, classifierVars, deviceVars,
                   pipelineVars, lifecycleVars, trackerLockVars, captureVars,
                   threadVars>>

\* detection loop, line 176: self._track_event(event)
TrackEvent ==
    /\ event # NoEvent
    /\ _track_event(event)
    /\ event' = NoEvent
    /\ last_op' = "track"
    /\ follows_reset' = FALSE
    /\ ret_count' = 0 /\ ret_should' = FALSE
    /\ UNCHANGED now
    /\ UNCHANGED <<bufferVars, vadVars, loopVars, classifierVars, deviceVars,
                   pipelineVars, lifecycleVars, trackerLockVars, captureVars,
                   threadVars>>

\* a status caller: get_recent_event_count()
GetRecentEventCount ==
    /\ cough_events' = get_recent_event_count(cough_events)
    /\ ret_count' = Len(cough_events')
    /\ last_op' = "count"
    /\ follows_reset' = FALSE
    /\ UNCHANGED <<now, event, total_events, aggressive_mode_triggered,
                   recorded, announcements>>
    /\ ret_should' = FALSE
    /\ UNCHANGED <<bufferVars, vadVars, loopVars, classifierVars, deviceVars,
                   pipelineVars, lifecycleVars, trackerLockVars, captureVars,
                   threadVars>>

\* should_trigger_aggressive_mode with > for >=
should_trigger_aggressive_mode_strict(count) == count > aggressive_threshold

\* AudioDetectorWrapper.should_trigger_aggressive_mode, given the count
should_trigger_aggressive_mode(count) == count >= aggressive_threshold

\* a status caller: should_trigger_aggressive_mode()
ShouldTriggerAggressiveMode ==
    /\ cough_events' = get_recent_event_count(cough_events)
    /\ ret_should' = should_trigger_aggressive_mode(Len(cough_events'))
    /\ last_op' = "should"
    /\ follows_reset' = (last_op = "reset")
    /\ UNCHANGED <<now, event, total_events, aggressive_mode_triggered,
                   recorded, announcements>>
    /\ ret_count' = 0
    /\ UNCHANGED <<bufferVars, vadVars, loopVars, classifierVars, deviceVars,
                   pipelineVars, lifecycleVars, trackerLockVars, captureVars,
                   threadVars>>

\* the device controller: reset_aggressive_mode()
ResetAggressiveMode ==
    /\ aggressive_mode_triggered' = FALSE
    /\ cough_events' = reset_aggressive_mode(cough_events)
    /\ announcements' = 0
    /\ last_op' = "reset"
    /\ follows_reset' = FALSE
    /\ ret_count' = 0 /\ ret_should' = FALSE
    /\ UNCHANGED <<now, event, total_events, recorded>>
    /\ UNCHANGED <<bufferVars, vadVars, loopVars, classifierVars, deviceVars,
                   pipelineVars, lifecycleVars, trackerLockVars, captureVars,
                   threadVars>>

NextTracker ==
    \/ Tick
    \/ CreateEvent
    \/ TrackEvent
    \/ GetRecentEventCount
    \/ ShouldTriggerAggressiveMode
    \/ ResetAggressiveMode

SpecTracker == Init /\ [][NextTracker]_vars

(***************************************************************************)
(* SpecTrackerLock: the detection thread inside _track_event, a status     *)
(* thread inside get_recent_event_count and the device controller calling  *)
(* reset_aggressive_mode, interleaved line by line                         *)
(***************************************************************************)

\* what a step on the tracker leaves alone
trackerLockFrame == UNCHANGED <<bufferVars, vadVars, loopVars,
                                classifierVars, deviceVars, pipelineVars,
                                lifecycleVars,
                                captureVars, threadVars, now, last_op,
                                follows_reset, ret_should>>

\* _track_event, line 219: with self.events_lock
TrackAcquire ==
    /\ track_pc = "idle"
    /\ event # NoEvent
    /\ events_lock = "free"
    /\ events_lock' = "detection"
    /\ track_pc' = "append"
    /\ UNCHANGED <<event, cough_events, total_events,
                   aggressive_mode_triggered, recorded, announcements,
                   ret_count, count_pc, tracker_access>>
    /\ trackerLockFrame

\* _track_event, lines 220-221: append and count the event
TrackAppend ==
    /\ track_pc = "append"
    /\ cough_events' = Append(cough_events, event)
    /\ total_events' = total_events + 1
    /\ recorded' = Append(recorded, event)
    /\ tracker_access' = Write("detection", "append")
    /\ track_pc' = "cleanup"
    /\ UNCHANGED <<event, aggressive_mode_triggered, announcements,
                   ret_count, events_lock, count_pc>>
    /\ trackerLockFrame

\* _track_event, line 224: self._cleanup_old_events()
TrackCleanup ==
    /\ track_pc = "cleanup"
    /\ cough_events' = _cleanup_old_events(cough_events)
    /\ tracker_access' = Write("detection", "cleanup")
    /\ track_pc' = "latch"
    /\ UNCHANGED <<event, total_events, aggressive_mode_triggered, recorded,
                   announcements, ret_count, events_lock, count_pc>>
    /\ trackerLockFrame

\* _track_event, lines 227-233: the latch is set on the first record that
\* finds the threshold reached, and the with block ends
TrackLatch ==
    /\ track_pc = "latch"
    /\ LET recent_count == Len(cough_events)
           trigger == /\ recent_count >= aggressive_threshold
                      /\ ~aggressive_mode_triggered
       IN  /\ aggressive_mode_triggered' =
                 (aggressive_mode_triggered \/ trigger)
           /\ announcements' = IF trigger THEN announcements + 1
                               ELSE announcements
           /\ tracker_access' = IF trigger THEN Write("detection", "latch")
                                ELSE tracker_access
    /\ events_lock' = "free"
    /\ track_pc' = "idle"
    /\ event' = NoEvent
    /\ UNCHANGED <<cough_events, total_events, recorded, ret_count, count_pc>>
    /\ trackerLockFrame

\* get_recent_event_count, line 244: with self.events_lock
CountAcquire ==
    /\ count_pc = "idle"
    /\ events_lock = "free"
    /\ events_lock' = "status"
    /\ count_pc' = "cleanup"
    /\ ret_count' = 0
    /\ UNCHANGED <<event, cough_events, total_events,
                   aggressive_mode_triggered, recorded, announcements,
                   track_pc, tracker_access>>
    /\ trackerLockFrame

\* get_recent_event_count, lines 245-246: evict, return the length
CountCleanup ==
    /\ count_pc = "cleanup"
    /\ cough_events' = get_recent_event_count(cough_events)
    /\ ret_count' = Len(cough_events')
    /\ tracker_access' = Write("status", "cleanup")
    /\ events_lock' = "free"
    /\ count_pc' = "idle"
    /\ UNCHANGED <<event, total_events, aggressive_mode_triggered, recorded,
                   announcements, track_pc>>
    /\ trackerLockFrame

\* reset_aggressive_mode, line 254, called by the device controller: one
\* assignment, no with block around it
ResetUnlocked ==
    /\ aggressive_mode_triggered' = FALSE
    /\ cough_events' = reset_aggressive_mode(cough_events)
    /\ announcements' = 0
    /\ tracker_access' = Write("controller", "reset")
    /\ UNCHANGED <<event, total_events, recorded, ret_count, events_lock,
                   track_pc, count_pc>>
    /\ trackerLockFrame

\* time passes while the threads run
TickLocked ==
    /\ now < MaxTime
    /\ now' = now + 1
    /\ UNCHANGED <<event, cough_events, total_events,
                   aggressive_mode_triggered, recorded, announcements,
                   ret_count, last_op, follows_reset, ret_should,
                   trackerLockVars>>
    /\ UNCHANGED <<bufferVars, vadVars, loopVars, classifierVars, deviceVars,
                   pipelineVars, lifecycleVars, captureVars,
                   threadVars>>

\* the detection loop hands a new event to _track_event
CreateEventLocked ==
    /\ track_pc = "idle"
    /\ CreateEvent
    /\ UNCHANGED trackerLockVars

NextTrackerLock ==
    \/ TickLocked
    \/ CreateEventLocked
    \/ TrackAcquire
    \/ TrackAppend
    \/ TrackCleanup
    \/ TrackLatch
    \/ CountAcquire
    \/ CountCleanup
    \/ ResetUnlocked

SpecTrackerLock == Init /\ [][NextTrackerLock]_vars

(***************************************************************************)
(* SpecVAD: the audio callback of segmentation.py feeding process_block,   *)
(* and a caller probing check_activity                                     *)
(***************************************************************************)

\* segmentation.audio_callback: detector.process_block(audio_block) under
\* buffer_lock, then save_queue.put((event_data, metadata)) for an event
\* (save_queue is here the queue of segmentation.py)
audio_callback(audio_block, features) ==
    /\ process_block(audio_block, features)
    /\ save_queue' = IF ret'.should_save
                     THEN queue_put(save_queue, <<ret'.event_data,
                                                  ret'.metadata>>)
                     ELSE save_queue
    /\ UNCHANGED <<wrapper_is_running, is_running, pc, blocks_waited,
                   buffer_copy, window, result, total_windows_processed,
                   total_coughs_detected, last_detection_time,
                   hops_since_event, last_event_gap>>
    /\ UNCHANGED <<bufferVars, trackerVars, classifierVars, deviceVars,
                   pipelineVars, lifecycleVars, trackerLockVars, captureVars,
                   threadVars>>

\* the stream delivers any block
ProcessBlock ==
    /\ stats.blocks_processed < MaxBlocks
    /\ \E audio_block \in Blocks, features \in Features :
          audio_callback(audio_block, features)

\* vad.check_activity(audio_chunk), called on its own
CheckActivity ==
    /\ \E audio_chunk \in Chunks :
          /\ check_in' = audio_chunk
          /\ check_ret' = check_activity(audio_chunk, is_calibrated,
                                         vad_energy_threshold)
    /\ UNCHANGED <<calibration_samples, is_calibrated, vad_energy_threshold,
                   event_buffer, event_cooldown, stats, ret, calibrations,
                   classifier_ran, process_calls>>
    /\ UNCHANGED <<bufferVars, trackerVars, loopVars, classifierVars,
                   deviceVars, pipelineVars, lifecycleVars, trackerLockVars,
                   captureVars, threadVars>>

NextVAD ==
    \/ ProcessBlock
    \/ CheckActivity

SpecVAD == Init /\ [][NextVAD]_vars

(***************************************************************************)
(* SpecCooldown: a longer stream of two kinds of block, digital silence    *)
(* and bursts, through the same callback: long enough for an event, its    *)
(* cooldown and the blocks after it                                        *)
(***************************************************************************)

\* digital silence and the burst
StreamBlocks == {b \in Blocks : b.energy2 = 0 \/ b.zcr = vad_zcr_min}

ProcessStreamBlock ==
    /\ stats.blocks_processed < MaxStreamBlocks
    /\ \E audio_block \in StreamBlocks, features \in Features :
          audio_callback(audio_block, features)

NextCooldown == ProcessStreamBlock

SpecCooldown == Init /\ [][NextCooldown]_vars

(***************************************************************************)
(* SpecLoop: the wrapper started once, the audio callback filling the      *)
(* buffer, the detection thread stepping through its loop, and stop()      *)
(* going through its joins while the save worker is not scheduled.  The    *)
(* clock stands still here: the ageing of events is SpecTracker's subject. *)
(***************************************************************************)

trackerFrame == UNCHANGED <<now, event, cough_events, total_events,
                            aggressive_mode_triggered, recorded, last_op,
                            ret_count, ret_should, follows_reset,
                            announcements>>

\* AudioDetectorWrapper.start -> LiveCoughDetector.start: the save worker
\* is launched, the stream opened and the detection thread spawned
Start ==
    /\ ~wrapper_is_running
    /\ pc = "idle"
    /\ stop_pc = "idle"
    /\ worker_pc' = "get"
    /\ stream_active' = TRUE
    /\ is_running' = TRUE
    /\ wrapper_is_running' = TRUE
    /\ pc' = "while"
    /\ UNCHANGED <<blocks_waited, buffer_copy, window, result,
                   total_windows_processed, total_coughs_detected,
                   last_detection_time, save_queue, hops_since_event,
                   last_event_gap>>
    /\ UNCHANGED <<buffer_lock, stopVars, enqueued, handled, hopVars>>
    /\ trackerFrame
    /\ UNCHANGED <<bufferVars, vadVars, classifierVars, deviceVars,
                   pipelineVars, lifecycleVars, trackerLockVars, captureVars>>

\* what stop() changes besides its own position
stopFrame == UNCHANGED <<pc, blocks_waited, buffer_copy, window, result,
                         total_windows_processed, total_coughs_detected,
                         last_detection_time, hops_since_event,
                         last_event_gap, buffer_lock, worker_pc, handled,
                         hopVars, bufferVars, vadVars, classifierVars,
                         deviceVars, pipelineVars, lifecycleVars,
                         trackerLockVars,
                         captureVars>>

\* AudioDetectorWrapper.stop -> LiveCoughDetector.stop, line 300:
\* self.is_running = False
StopBegin ==
    /\ wrapper_is_running
    /\ stop_pc = "idle"
    /\ is_running' = FALSE
    /\ stop_pc' = "join_detection"
    /\ UNCHANGED <<wrapper_is_running, stream_active, save_queue, enqueued,
                   detection_join_timed_out, worker_join_timed_out,
                   stop_reported>>
    /\ stopFrame
    /\ trackerFrame

\* LiveCoughDetector.stop, lines 301-302: detection_thread.join(timeout=2);
\* what join returns is not looked at
StopJoinDetection ==
    /\ stop_pc = "join_detection"
    /\ join_returns(pc = "done")
    /\ detection_join_timed_out' = (pc # "done")
    /\ stop_pc' = "stream"
    /\ UNCHANGED <<wrapper_is_running, is_running, stream_active, save_queue,
                   enqueued, worker_join_timed_out, stop_reported>>
    /\ stopFrame
    /\ trackerFrame

\* LiveCoughDetector.stop, lines 305-307: stream.stop(); stream.close()
StopStream ==
    /\ stop_pc = "stream"
    /\ stream_active' = FALSE
    /\ stop_pc' = "poison"
    /\ UNCHANGED <<wrapper_is_running, is_running, save_queue, enqueued,
                   detection_join_timed_out, worker_join_timed_out,
                   stop_reported>>
    /\ stopFrame
    /\ trackerFrame

\* LiveCoughDetector.stop, line 310: self.save_queue.put(None)
StopPoison ==
    /\ stop_pc = "poison"
    /\ save_queue' = queue_put(save_queue, Poison)
    /\ enqueued' = Append(enqueued, Poison)
    /\ stop_pc' = "join_worker"
    /\ UNCHANGED <<wrapper_is_running, is_running, stream_active,
                   detection_join_timed_out, worker_join_timed_out,
                   stop_reported>>
    /\ stopFrame
    /\ trackerFrame

\* LiveCoughDetector.stop, lines 311-323: save_worker_thread.join(timeout=2),
\* the statistics, and the return to AudioDetectorWrapper.stop, which sets
\* is_running = False and returns None
StopJoinWorker ==
    /\ stop_pc = "join_worker"
    /\ join_returns(worker_pc = "done")
    /\ worker_join_timed_out' = (worker_pc # "done")
    /\ stop_reported' = stop_return
    /\ wrapper_is_running' = FALSE
    /\ stop_pc' = "returned"
    /\ UNCHANGED <<is_running, stream_active, save_queue, enqueued,
                   detection_join_timed_out>>
    /\ stopFrame
    /\ trackerFrame

\* the stream delivers a block: LiveCoughDetector._audio_callback, which
\* appends under buffer_lock
StreamCallback ==
    /\ stream_active
    /\ buffer_lock = "free"
    /\ Len(pushed) < MaxLoopPushes
    /\ \E indata \in StreamData : _audio_callback(indata)
    /\ pushed_in_flight' = (pushed_in_flight \/ pc = "predict")
    /\ UNCHANGED <<window_errors, snapshot_buffer>>
    /\ UNCHANGED <<lockVars, stopVars, workerVars>>
    /\ UNCHANGED <<trackerVars, vadVars, loopVars, classifierVars,
                   deviceVars, pipelineVars, lifecycleVars, trackerLockVars,
                   captureVars>>

\* the callback run before the event is recorded
event_steps_callback_first == <<"callback", "track", "count", "save">>

\* lines 175-202, what the loop does with a positive window, in order:
\* self._track_event(event); the banner with get_recent_event_count();
\* self.on_event_callback(event); detector.save_queue.put(...)
event_steps == <<"track", "count", "callback", "save">>

\* the step that follows step s, or the top of the loop after the last
step_after(s) ==
    LET i == CHOOSE k \in 1..Len(event_steps) : event_steps[k] = s
    IN  IF i = Len(event_steps) THEN "while" ELSE event_steps[i + 1]

\* a loop that looks at the flag only while it is waiting for the hop
while_condition_wait_only(running, waited) ==
    running \/ waited >= hop_blocks

\* line 121: while detector.is_running, evaluated at the top of every
\* iteration, the wait steps (which end in continue) included
while_condition(running, waited) == running

\* what a step of the detection thread leaves alone outside the loop's own
\* variables and the tracker's
loopFrame == UNCHANGED <<wrapper_is_running, is_running, stream_active,
                         stopVars, worker_pc, handled, bufferVars, vadVars,
                         classifierVars, deviceVars, pipelineVars,
                         lifecycleVars, trackerLockVars, captureVars>>

\* the same for the step that runs the device's callback
callbackFrame == UNCHANGED <<wrapper_is_running, is_running, stream_active,
                         stopVars, worker_pc, handled, bufferVars, vadVars,
                         classifierVars, pipelineVars, lifecycleVars,
                         trackerLockVars, captureVars>>

\* while detector.is_running: false, the thread ends
LoopExit ==
    /\ pc = "while"
    /\ ~while_condition(is_running, blocks_waited)
    /\ pc' = "done"
    /\ UNCHANGED <<blocks_waited, buffer_copy,
                   window, result, total_windows_processed,
                   total_coughs_detected, last_detection_time, save_queue,
                   hops_since_event, last_event_gap>>
    /\ UNCHANGED <<buffer_lock, enqueued, hopVars>>
    /\ loopFrame
    /\ trackerFrame

\* lines 123-126: time.sleep(0.1); blocks_waited += 1; continue
LoopWait ==
    /\ pc = "while"
    /\ while_condition(is_running, blocks_waited)
    /\ blocks_waited < hop_blocks
    /\ blocks_waited' = blocks_waited + 1
    /\ UNCHANGED <<pc, buffer_copy, window,
                   result, total_windows_processed, total_coughs_detected,
                   last_detection_time, save_queue, hops_since_event,
                   last_event_gap>>
    /\ UNCHANGED <<buffer_lock, enqueued, hopVars>>
    /\ loopFrame
    /\ trackerFrame

\* lines 128-131: the hop begins; with detector.buffer_lock is entered
LoopAcquire ==
    /\ pc = "while"
    /\ while_condition(is_running, blocks_waited)
    /\ blocks_waited >= hop_blocks
    /\ total_windows_processed < MaxWindows
    /\ buffer_lock = "free"
    /\ buffer_lock' = "detection"
    /\ blocks_waited' = 0
    /\ hops_since_event' = Min(hops_since_event + 1, CooldownCap)
    /\ pc' = "locked"
    /\ UNCHANGED <<buffer_copy, window, result,
                   total_windows_processed, total_coughs_detected,
                   last_detection_time, save_queue, last_event_gap>>
    /\ UNCHANGED <<enqueued, hopVars>>
    /\ loopFrame
    /\ trackerFrame

\* lines 132-134: inside the with block the buffer is copied (or the hop
\* given up on an empty buffer); leaving the block releases the lock
LoopSnapshot ==
    /\ pc = "locked"
    /\ IF Len(display_buffer) < 1
       THEN UNCHANGED <<buffer_copy, snapshot_buffer>> /\ pc' = "while"
       ELSE /\ buffer_copy' = display_buffer
            /\ snapshot_buffer' = display_buffer
            /\ pc' = "window"
    /\ buffer_lock' = lock_after_with
    /\ UNCHANGED <<blocks_waited, window, result,
                   total_windows_processed, total_coughs_detected,
                   last_detection_time, save_queue, hops_since_event,
                   last_event_gap>>
    /\ UNCHANGED <<enqueued, window_errors, pushed_in_flight>>
    /\ loopFrame
    /\ trackerFrame

\* lines 137-151: concatenate, cut the window, count it, energy pre-filter
LoopWindow ==
    /\ pc = "window"
    /\ LET full_buffer == concatenate(list_copy(buffer_copy, display_buffer))
       IN  IF Len(full_buffer) < detection_samples
           THEN /\ pc' = "while"
                /\ UNCHANGED <<window, total_windows_processed>>
           ELSE /\ window' = tail_window(full_buffer)
                /\ total_windows_processed' = total_windows_processed + 1
                /\ pc' = IF _energy_prefilter(tail_window(full_buffer))
                         THEN "predict" ELSE "while"
    /\ pushed_in_flight' = FALSE
    /\ UNCHANGED <<blocks_waited, buffer_copy,
                   result, total_coughs_detected, last_detection_time,
                   save_queue, hops_since_event, last_event_gap>>
    /\ UNCHANGED <<buffer_lock, enqueued, window_errors, snapshot_buffer>>
    /\ loopFrame
    /\ trackerFrame

\* lines 154-173 and 204-209: features and inference; an exception or a
\* negative ends the hop, a positive becomes a CoughEvent
LoopPredict ==
    /\ pc = "predict"
    /\ \/ \* extract_normalized or predict raises
          /\ pc' = except_continue
          /\ window_errors' = window_errors + 1
          /\ UNCHANGED <<result, total_coughs_detected, last_detection_time,
                         event, hops_since_event, last_event_gap>>
       \/ \E prob \in Probs, class \in Results :
             LET r == pipeline_predict(prob, class)
             IN  /\ result' = r
                 /\ UNCHANGED window_errors
                 /\ IF r.is_cough
                    THEN /\ total_coughs_detected' = total_coughs_detected + 1
                         /\ last_detection_time' = now
                         /\ event' = CoughEvent(r.cough_type,
                                        r.classification_confidence, now)
                         /\ last_event_gap' = hops_since_event
                         /\ hops_since_event' = 0
                         /\ pc' = event_steps[1]
                    ELSE /\ pc' = "while"
                         /\ UNCHANGED <<total_coughs_detected,
                                        last_detection_time, event,
                                        hops_since_event, last_event_gap>>
    /\ pushed_in_flight' = FALSE
    /\ UNCHANGED <<blocks_waited, buffer_copy,
                   window, total_windows_processed, save_queue>>
    /\ UNCHANGED <<buffer_lock, enqueued, snapshot_buffer>>
    /\ UNCHANGED <<now, cough_events, total_events,
                   aggressive_mode_triggered, recorded, last_op, ret_count,
                   ret_should, follows_reset, announcements>>
    /\ loopFrame

\* line 176: self._track_event(event)
LoopTrack ==
    /\ pc = "track"
    /\ _track_event(event)
    /\ last_op' = "track"
    /\ follows_reset' = FALSE
    /\ ret_count' = 0 /\ ret_should' = FALSE
    /\ pc' = step_after("track")
    /\ UNCHANGED <<now, event>>
    /\ UNCHANGED <<blocks_waited, buffer_copy,
                   window, result, total_windows_processed,
                   total_coughs_detected, last_detection_time, save_queue,
                   hops_since_event, last_event_gap>>
    /\ UNCHANGED <<buffer_lock, enqueued, hopVars>>
    /\ loopFrame

\* line 185: the banner prints self.get_recent_event_count()
LoopCount ==
    /\ pc = "count"
    /\ cough_events' = get_recent_event_count(cough_events)
    /\ ret_count' = Len(cough_events')
    /\ ret_should' = FALSE
    /\ last_op' = "count"
    /\ follows_reset' = FALSE
    /\ pc' = step_after("count")
    /\ UNCHANGED <<now, event, total_events, aggressive_mode_triggered,
                   recorded, announcements>>
    /\ UNCHANGED <<blocks_waited, buffer_copy,
                   window, result, total_windows_processed,
                   total_coughs_detected, last_detection_time, save_queue,
                   hops_since_event, last_event_gap>>
    /\ UNCHANGED <<buffer_lock, enqueued, hopVars>>
    /\ loopFrame

\* lines 189-193: on_event_callback(event), which asks
\* should_trigger_aggressive_mode() (device.handle_cough_event)
LoopCallback ==
    /\ pc = "callback"
    /\ cough_events' = get_recent_event_count(cough_events)
    /\ ret_should' = should_trigger_aggressive_mode(Len(cough_events'))
    /\ ret_count' = 0
    /\ last_op' = "should"
    /\ follows_reset' = (last_op = "reset")
    /\ aggressive_mode' = (aggressive_mode \/ ret_should')
    /\ UNCHANGED deviceCtlVars
    /\ pc' = step_after("callback")
    /\ UNCHANGED <<now, event, total_events, aggressive_mode_triggered,
                   recorded, announcements>>
    /\ UNCHANGED <<blocks_waited, buffer_copy,
                   window, result, total_windows_processed,
                   total_coughs_detected, last_detection_time, save_queue,
                   hops_since_event, last_event_gap>>
    /\ UNCHANGED <<buffer_lock, enqueued, hopVars>>
    /\ callbackFrame

\* lines 196-202: the window is queued for the save worker
LoopSave ==
    /\ pc = "save"
    /\ LET queued == [audio |-> window, result |-> result, timestamp |-> now]
       IN  IF save_detections
           THEN /\ save_queue' = queue_put(save_queue, queued)
                /\ enqueued' = Append(enqueued, queued)
           ELSE UNCHANGED <<save_queue, enqueued>>
    /\ event' = NoEvent
    /\ pc' = step_after("save")
    /\ UNCHANGED <<blocks_waited, buffer_copy,
                   window, result, total_windows_processed,
                   total_coughs_detected, last_detection_time,
                   hops_since_event, last_event_gap>>
    /\ UNCHANGED <<buffer_lock, hopVars>>
    /\ UNCHANGED <<now, cough_events, total_events,
                   aggressive_mode_triggered, recorded, last_op, ret_count,
                   ret_should, follows_reset, announcements>>
    /\ loopFrame

\* what a step of the save worker leaves alone
workerFrame == UNCHANGED <<bufferVars, trackerVars, vadVars, classifierVars,
                           deviceVars, pipelineVars, lifecycleVars,
                           trackerLockVars,
                           captureVars, lockVars, stopVars, hopVars,
                           wrapper_is_running, is_running, pc, blocks_waited,
                           buffer_copy, window, result,
                           total_windows_processed, total_coughs_detected,
                           last_detection_time, hops_since_event,
                           last_event_gap, enqueued>>

\* LiveCoughDetector._save_worker, lines 234-258, for an item that is not
\* the stop signal: the csv is written, or the write raises and the
\* exception is printed
SaveWorkerItem ==
    /\ worker_pc = "get"
    /\ save_queue # <<>>
    /\ LET got == queue_get(save_queue)
       IN  /\ got[1] # Poison
           /\ save_queue' = got[2]
           /\ \E written \in BOOLEAN :
                 /\ handled' = Append(handled,
                                      [item |-> got[1], written |-> written])
                 /\ worker_pc' = IF written THEN "get" ELSE except_print
    /\ workerFrame

\* LiveCoughDetector._save_worker, lines 236-239 and 260: the stop signal
\* is taken from the queue and the thread ends
SaveWorkerStop ==
    /\ worker_pc = "get"
    /\ save_queue # <<>>
    /\ LET got == queue_get(save_queue)
       IN  /\ got[1] = Poison
           /\ save_queue' = got[2]
    /\ worker_pc' = "done"
    /\ UNCHANGED handled
    /\ workerFrame

\* the steps of stop() after it has cleared is_running
StopThread ==
    \/ StopJoinDetection
    \/ StopStream
    \/ StopPoison
    \/ StopJoinWorker

\* the steps of the detection thread
DetectionThread ==
    \/ LoopExit
    \/ LoopWait
    \/ LoopAcquire
    \/ LoopSnapshot
    \/ LoopWindow
    \/ LoopPredict
    \/ LoopTrack
    \/ LoopCount
    \/ LoopCallback
    \/ LoopSave

NextLoop ==
    \/ Start
    \/ StopBegin
    \/ StopThread
    \/ StreamCallback
    \/ DetectionThread

SpecLoop == Init /\ [][NextLoop]_vars

(***************************************************************************)
(* SpecShutdown: the same threads with the save worker running, the        *)
(* stream delivering full-scale blocks only                                *)
(***************************************************************************)

\* the stream delivers a full-scale block
StreamCallbackLoud ==
    /\ stream_active
    /\ buffer_lock = "free"
    /\ Len(pushed) < MaxShutdownPushes
    /\ _audio_callback([f \in 1..block_size |->
                           [c \in 1..channels |-> MaxSample]])
    /\ pushed_in_flight' = (pushed_in_flight \/ pc = "predict")
    /\ UNCHANGED <<window_errors, snapshot_buffer>>
    /\ UNCHANGED <<lockVars, stopVars, workerVars>>
    /\ UNCHANGED <<trackerVars, vadVars, loopVars, classifierVars,
                   deviceVars, pipelineVars, lifecycleVars, trackerLockVars,
                   captureVars>>

NextShutdown ==
    \/ Start
    \/ StopBegin
    \/ StopThread
    \/ StreamCallbackLoud
    \/ DetectionThread
    \/ SaveWorkerItem
    \/ SaveWorkerStop

SpecShutdown == Init /\ [][NextShutdown]_vars

\* stop() runs on: the thread that called it is scheduled, whatever the
\* detection thread and the save worker do
SpecShutdownFair == SpecShutdown /\ WF_vars(StopThread)

(***************************************************************************)
(* SpecLifecycle: start() and stop() called again and again on the         *)
(* wrapper, the stream failing to open or not, and the detection thread    *)
(* of each detector running until it sees its own is_running cleared.      *)
(* No block is delivered here: every hop finds the buffer empty.           *)
(***************************************************************************)

\* the detection thread of the current detector has been spawned and has
\* not ended
thread_alive == pc # "idle" /\ pc # "done"

\* what a start() call leaves alone
startFrame == UNCHANGED <<pushed, trackerVars, vadVars, classifierVars,
                          deviceVars, pipelineVars,
                          trackerLockVars, captureVars, stopVars, enqueued,
                          handled, hopVars, hops_since_event, last_event_gap>>

\* AudioDetectorWrapper.start, lines 258-260: already running, return
StartWhileRunning ==
    /\ wrapper_is_running
    /\ last_start' = [opens |-> 0, failed |-> FALSE,
                      reported |-> "already_running"]
    /\ UNCHANGED <<starts, lingering_threads>>
    /\ UNCHANGED <<bufferVars, trackerVars, vadVars, loopVars,
                   classifierVars, deviceVars, pipelineVars,
                   trackerLockVars, captureVars, threadVars>>

\* AudioDetectorWrapper.start, lines 262-272, with LiveCoughDetector.
\* __init__ and start: a new detector (empty buffer, empty queue, its own
\* lock, counters at zero) whose worker, stream and detection thread start.
\* The thread of the detector before it is left to itself.
StartDetector ==
    /\ ~wrapper_is_running
    /\ stop_pc \in {"idle", "returned"}
    /\ starts < MaxStarts
    /\ starts' = starts + 1
    /\ lingering_threads' = lingering_threads + (IF thread_alive THEN 1 ELSE 0)
    /\ display_buffer' = <<>>
    /\ save_queue' = <<>>
    /\ buffer_lock' = "free"
    /\ blocks_waited' = 0
    /\ buffer_copy' = <<>>
    /\ window' = <<>>
    /\ result' = NoResult
    /\ total_windows_processed' = 0
    /\ total_coughs_detected' = 0
    /\ last_detection_time' = 0
    /\ worker_pc' = "get"
    /\ stream_active' = TRUE
    /\ is_running' = TRUE
    /\ pc' = "while"
    /\ wrapper_is_running' = TRUE
    /\ last_start' = [opens |-> stream_opens_per_start, failed |-> FALSE,
                      reported |-> "ok"]
    /\ startFrame

\* the same call when sd.InputStream(...) or stream.start() raises: the
\* worker is already running, the exception leaves LiveCoughDetector.start
\* before is_running is set and before the detection thread is created,
\* and the wrapper's handler sets its own is_running False and re-raises
StartFails ==
    /\ ~wrapper_is_running
    /\ stop_pc \in {"idle", "returned"}
    /\ starts < MaxStarts
    /\ starts' = starts + 1
    /\ lingering_threads' = lingering_threads + (IF thread_alive THEN 1 ELSE 0)
    /\ display_buffer' = <<>>
    /\ save_queue' = <<>>
    /\ buffer_lock' = "free"
    /\ blocks_waited' = 0
    /\ buffer_copy' = <<>>
    /\ window' = <<>>
    /\ result' = NoResult
    /\ total_windows_processed' = 0
    /\ total_coughs_detected' = 0
    /\ last_detection_time' = 0
    /\ worker_pc' = "get"
    /\ stream_active' = FALSE
    /\ is_running' = FALSE
    /\ pc' = "idle"
    /\ wrapper_is_running' = FALSE
    /\ last_start' = [opens |-> stream_opens_per_start, failed |-> TRUE,
                      reported |-> start_except]
    /\ startFrame

\* AudioDetectorWrapper.stop, lines 281-282: not running, return
StopWhileIdle ==
    /\ ~wrapper_is_running
    /\ last_start # NoStart
    /\ last_start' = NoStart
    /\ UNCHANGED <<starts, lingering_threads>>
    /\ UNCHANGED <<bufferVars, trackerVars, vadVars, loopVars,
                   classifierVars, deviceVars, pipelineVars,
                   trackerLockVars, captureVars, threadVars>>

\* stop() on a running wrapper, step by step
StopRunning ==
    /\ StopBegin \/ StopThread
    /\ UNCHANGED lifecycleVars

\* the detection thread of the current detector
LifecycleThread ==
    /\ LoopExit \/ LoopWait \/ LoopAcquire \/ LoopSnapshot
    /\ UNCHANGED lifecycleVars

\* the thread of an earlier detector, whose is_running stop() cleared,
\* comes to the top of its loop and ends
LingeringThreadExit ==
    /\ lingering_threads > 0
    /\ lingering_threads' = lingering_threads - 1
    /\ UNCHANGED <<starts, last_start>>
    /\ UNCHANGED <<bufferVars, trackerVars, vadVars, loopVars,
                   classifierVars, deviceVars, pipelineVars,
                   trackerLockVars, captureVars, threadVars>>

NextLifecycle ==
    \/ StartWhileRunning
    \/ StartDetector
    \/ StartFails
    \/ StopWhileIdle
    \/ StopRunning
    \/ LifecycleThread
    \/ LingeringThreadExit

SpecLifecycle == Init /\ [][NextLifecycle]_vars

(***************************************************************************)
(* SpecCapture: the capture program in manual mode: the stream filling the *)
(* buffer, the 's' key queueing it, the save worker, and Ctrl+C            *)
(***************************************************************************)

\* what a step of the capture program leaves alone
captureFrame == UNCHANGED <<trackerVars, vadVars, loopLocals,
                            classifierVars, deviceVars, pipelineVars,
                            lifecycleVars, trackerLockVars, stopVars, hopVars>>

\* the main block, lines 155-181: the worker and the key listener are
\* started and the stream is opened
CaptureStart ==
    /\ capture_pc = "idle"
    /\ pc = "idle"
    /\ capture_pc' = "running"
    /\ worker_pc' = "get"
    /\ stream_active' = TRUE
    /\ UNCHANGED <<bufferVars, buffer_lock, save_queue, enqueued, handled,
                   buffer_access>>
    /\ captureFrame

\* audio_callback, line 109: with buffer_lock is entered
CaptureCallbackEnter ==
    /\ stream_active
    /\ capture_pc = "running"
    /\ buffer_lock = "free"
    /\ Len(pushed) < deque_maxlen_blocks + MaxExtraPushes
    /\ buffer_lock' = "callback"
    /\ UNCHANGED <<bufferVars, stream_active, save_queue, enqueued, handled,
                   worker_pc, captureVars>>
    /\ captureFrame

\* audio_callback, lines 110-124: the block is appended; once the buffer is
\* full it is copied, the lock is left, and the RMS of the window decides
\* (in automatic mode) whether the window is queued
CaptureCallbackBody ==
    /\ buffer_lock = "callback"
    /\ \E indata \in StreamData :
          /\ _audio_callback(indata)
          /\ LET buffer_list_copy == display_buffer'
                 full == Len(buffer_list_copy) >= deque_maxlen_blocks
                 w == window_buffered(concatenate(buffer_list_copy))
                 queued == [data |-> w, prefix |-> "rms_event"]
             IN  IF full /\ ~MANUAL_CAPTURE_MODE /\ rms_over_threshold(w)
                 THEN /\ save_queue' = queue_put(save_queue, queued)
                      /\ enqueued' = Append(enqueued, queued)
                 ELSE UNCHANGED <<save_queue, enqueued>>
    /\ buffer_access' = Access("callback", "append")
    /\ buffer_lock' = lock_after_with
    /\ UNCHANGED <<stream_active, handled, worker_pc, capture_pc>>
    /\ captureFrame

\* on_press, lines 132-135: 's' was pressed; with buffer_lock is entered
KeyPressEnter ==
    /\ MANUAL_CAPTURE_MODE
    /\ capture_pc = "running"
    /\ buffer_lock = "free"
    /\ Len(enqueued) < MaxKeyPresses
    /\ buffer_lock' = "listener"
    /\ UNCHANGED <<bufferVars, stream_active, save_queue, enqueued, handled,
                   worker_pc, captureVars>>
    /\ captureFrame

\* on_press, lines 136-144: the buffer is copied under the lock and, unless
\* it is empty, queued whole
KeyPressSave ==
    /\ buffer_lock = "listener"
    /\ LET buffer_list_copy == display_buffer
           queued == [data |-> concatenate(buffer_list_copy),
                      prefix |-> "manual_save"]
       IN  IF buffer_list_copy = <<>>
           THEN UNCHANGED <<save_queue, enqueued>>
           ELSE /\ save_queue' = queue_put(save_queue, queued)
                /\ enqueued' = Append(enqueued, queued)
    /\ buffer_access' = Access("listener", "snapshot")
    /\ buffer_lock' = lock_after_with
    /\ UNCHANGED <<bufferVars, stream_active, handled, worker_pc,
                   capture_pc>>
    /\ captureFrame

\* save_worker, lines 48-70, for an item that is not the stop signal: the
\* csv is written or the write raises; after an rms_event has been written
\* append_to_notes_csv clears display_buffer (line 98), unless its own csv
\* update raised first
CaptureWorkerItem ==
    /\ capture_pc # "idle"
    /\ worker_pc = "get"
    /\ save_queue # <<>>
    /\ LET got == queue_get(save_queue)
       IN  /\ got[1] # CapturePoison
           /\ save_queue' = got[2]
           /\ \E written \in BOOLEAN, notes_updated \in BOOLEAN :
                 /\ handled' = Append(handled,
                                      [item |-> got[1], written |-> written])
                 /\ worker_pc' = IF written THEN "get" ELSE except_print
                 /\ IF written /\ got[1].prefix = "rms_event"
                       /\ notes_updated
                    THEN /\ display_buffer' = <<>>
                         /\ buffer_access' = Access("worker", "clear")
                    ELSE UNCHANGED <<display_buffer, buffer_access>>
    /\ UNCHANGED <<pushed, lockVars, enqueued, capture_pc>>
    /\ captureFrame

\* save_worker, lines 50-52 and 71: the stop signal ends the thread
CaptureWorkerStop ==
    /\ capture_pc # "idle"
    /\ worker_pc = "get"
    /\ save_queue # <<>>
    /\ LET got == queue_get(save_queue)
       IN  /\ got[1] = CapturePoison
           /\ save_queue' = got[2]
    /\ worker_pc' = "done"
    /\ UNCHANGED <<bufferVars, lockVars, enqueued, handled, captureVars>>
    /\ captureFrame

\* lines 173-184: Ctrl+C; leaving the with block of the stream stops and
\* closes it, which waits for a callback in progress
CaptureInterrupt ==
    /\ capture_pc = "running"
    /\ buffer_lock # "callback"
    /\ stream_active' = FALSE
    /\ capture_pc' = "shutdown"
    /\ UNCHANGED <<bufferVars, buffer_lock, save_queue, enqueued, handled,
                   worker_pc, buffer_access>>
    /\ captureFrame

\* lines 189-200: listener.stop(); listener.join(), which waits for an
\* on_press in progress; save_queue.put(None)
CaptureShutdown ==
    /\ capture_pc = "shutdown"
    /\ buffer_lock # "listener"
    /\ save_queue' = queue_put(save_queue, CapturePoison)
    /\ enqueued' = Append(enqueued, CapturePoison)
    /\ capture_pc' = "join"
    /\ UNCHANGED <<bufferVars, lockVars, handled, worker_pc, buffer_access>>
    /\ captureFrame

\* lines 202-203: worker_thread.join(), without a timeout
CaptureJoinWorker ==
    /\ capture_pc = "join"
    /\ worker_pc = "done"
    /\ capture_pc' = "final"
    /\ UNCHANGED <<bufferVars, lockVars, save_queue, enqueued, handled,
                   worker_pc, buffer_access>>
    /\ captureFrame

\* lines 205-227: final_buffer_list = list(display_buffer), and the plot
CaptureFinalRead ==
    /\ capture_pc = "final"
    /\ buffer_access' = Access("main", "final_read")
    /\ capture_pc' = "exited"
    /\ UNCHANGED <<bufferVars, lockVars, save_queue, enqueued, handled,
                   worker_pc>>
    /\ captureFrame

NextCapture ==
    \/ CaptureStart
    \/ CaptureCallbackEnter
    \/ CaptureCallbackBody
    \/ KeyPressEnter
    \/ KeyPressSave
    \/ CaptureWorkerItem
    \/ CaptureWorkerStop
    \/ CaptureInterrupt
    \/ CaptureShutdown
    \/ CaptureJoinWorker
    \/ CaptureFinalRead

SpecCapture == Init /\ [][NextCapture]_vars

(***************************************************************************)
(* SpecClassifier: classify applied to the features of one chunk after     *)
(* another                                                                 *)
(***************************************************************************)

\* classifier.classify(audio_chunk), the chunk known by its features
Classify ==
    /\ \E f \in ClassifierInputs :
          /\ clf_features' = f
          /\ clf_score' = classify(f)
    /\ UNCHANGED <<bufferVars, trackerVars, vadVars, loopVars, threadVars,
                   captureVars, deviceVars, pipelineVars, lifecycleVars,
                   trackerLockVars>>

NextClassifier == Classify

SpecClassifier == Init /\ [][NextClassifier]_vars

(***************************************************************************)
(* SpecPipeline: pipeline.predict called on one window's features after    *)
(* another, the networks giving any answer                                 *)
(***************************************************************************)

\* pipeline.predict(features): the detection network gives prob, the
\* classification network, if asked, gives answer
PipelinePredict ==
    /\ \E prob \in PipelineProbs, answer \in ClassifierAnswers :
          /\ pipe_prob' = prob
          /\ pipe_result' = CoughDetectionPipeline_predict(prob, answer)
          /\ classifier_calls' =
                IF stage_two(detection_model_predict(prob).is_cough)
                THEN 1 ELSE 0
    /\ UNCHANGED config_detection_confidence
    /\ UNCHANGED <<bufferVars, trackerVars, vadVars, loopVars,
                   classifierVars, deviceVars,
                   threadVars, captureVars, trackerLockVars,
                   lifecycleVars>>

\* main(), lines 361-370: DetectionConfig(detection_confidence=
\* args.confidence) and LiveCoughDetector(config), whose _load_models builds
\* the pipeline from the two model paths alone (CoughDetectionPipeline.load)
CreateDetector ==
    /\ \E confidence \in Confidences :
          config_detection_confidence' = confidence
    /\ pipe_prob' = 0
    /\ pipe_result' = NoPipelineResult
    /\ classifier_calls' = 0
    /\ UNCHANGED <<bufferVars, trackerVars, vadVars, loopVars,
                   classifierVars, deviceVars,
                   threadVars, captureVars, trackerLockVars,
                   lifecycleVars>>

NextPipeline == CreateDetector \/ PipelinePredict

SpecPipeline == Init /\ [][NextPipeline]_vars

(***************************************************************************)
(* SpecDevice: the simulator with its audio detector.  Control commands    *)
(* switch auto mode and power; while the detector runs its                 *)
(* detection thread records coughs and calls handle_cough_event, one call  *)
(* at a time; the clock advances and events age out of the tracker.        *)
(***************************************************************************)

deviceFrame == UNCHANGED <<bufferVars, vadVars, loopVars, classifierVars,
                           pipelineVars, lifecycleVars, trackerLockVars,
                           captureVars, threadVars>>

\* a device that triggers on every event over the threshold
trigger_guard_always(mode) == TRUE

\* handle_cough_event, line 331: if not self.aggressive_mode
trigger_guard(mode) == ~mode

\* handle_control_command, lines 289-296: auto mode goes from off to on and
\* _start_audio_detection starts the detector unless it is running
AutoModeOn ==
    /\ ~auto_mode
    /\ auto_mode' = TRUE
    /\ wrapper_is_running' = TRUE
    /\ UNCHANGED <<aggressive_mode, online, fan_speed, device_pc, alerts_sent,
                   alerts_since_activation, boosts_since_activation>>
    /\ UNCHANGED <<is_running, pc, blocks_waited, buffer_copy, window, result,
                   total_windows_processed, total_coughs_detected,
                   last_detection_time, save_queue, hops_since_event,
                   last_event_gap>>
    /\ UNCHANGED <<trackerVars, bufferVars, vadVars, classifierVars,
                   pipelineVars, lifecycleVars, trackerLockVars, captureVars,
                   threadVars>>

\* handle_control_command, lines 289-298: auto mode goes from on to off and
\* _stop_audio_detection, lines 375-385, stops a running detector and then
\* sets aggressive_mode = False
AutoModeOff ==
    /\ auto_mode
    /\ auto_mode' = FALSE
    /\ IF wrapper_is_running
       THEN /\ wrapper_is_running' = FALSE
            /\ aggressive_mode' = FALSE
       ELSE UNCHANGED <<wrapper_is_running, aggressive_mode>>
    /\ UNCHANGED <<online, fan_speed, device_pc, alerts_sent,
                   alerts_since_activation, boosts_since_activation>>
    /\ UNCHANGED <<is_running, pc, blocks_waited, buffer_copy, window, result,
                   total_windows_processed, total_coughs_detected,
                   last_detection_time, save_queue, hops_since_event,
                   last_event_gap>>
    /\ UNCHANGED <<trackerVars, bufferVars, vadVars, classifierVars,
                   pipelineVars, lifecycleVars, trackerLockVars, captureVars,
                   threadVars>>

\* handle_control_command, lines 304-308: power
PowerCommand ==
    /\ \E value \in BOOLEAN :
          /\ online' = value
          /\ fan_speed' = IF value THEN fan_speed ELSE 0
    /\ UNCHANGED <<aggressive_mode, auto_mode, device_pc, alerts_sent,
                   alerts_since_activation, boosts_since_activation>>
    /\ UNCHANGED trackerVars
    /\ deviceFrame

\* wrapper lines 164-176 and 189-193: the running detector's thread finds a
\* cough, records it and calls on_event_callback
DeviceDetect ==
    /\ wrapper_is_running
    /\ device_pc = "idle"
    /\ total_events < MaxEvents
    /\ \E class \in Results :
          LET ev == CoughEvent(class.cough_type,
                               class.classification_confidence, now)
          IN  /\ _track_event(ev)
              /\ event' = ev
    /\ last_op' = "track"
    /\ follows_reset' = FALSE
    /\ ret_count' = 0 /\ ret_should' = FALSE
    /\ device_pc' = "check"
    /\ UNCHANGED now
    /\ UNCHANGED <<aggressive_mode, auto_mode, online, fan_speed, alerts_sent,
                   alerts_since_activation, boosts_since_activation>>
    /\ deviceFrame

\* handle_cough_event, lines 322-332: the event is posted (send_cough_event
\* catches its own exceptions), then should_trigger_aggressive_mode() and
\* the test of self.aggressive_mode decide whether to trigger
HandleCoughEvent ==
    /\ device_pc = "check"
    /\ cough_events' = get_recent_event_count(cough_events)
    /\ ret_should' = should_trigger_aggressive_mode(Len(cough_events'))
    /\ ret_count' = 0
    /\ last_op' = "should"
    /\ follows_reset' = FALSE
    /\ device_pc' = IF ret_should' /\ trigger_guard(aggressive_mode)
                    THEN "trigger" ELSE "idle"
    /\ UNCHANGED <<now, event, total_events, aggressive_mode_triggered,
                   recorded, announcements>>
    /\ UNCHANGED <<aggressive_mode, auto_mode, online, fan_speed, alerts_sent,
                   alerts_since_activation, boosts_since_activation>>
    /\ deviceFrame

\* _trigger_aggressive_mode, line 336: self.aggressive_mode = True
TriggerSet ==
    /\ device_pc = "trigger"
    /\ aggressive_mode' = TRUE
    /\ alerts_since_activation' =
          IF aggressive_mode THEN alerts_since_activation ELSE 0
    /\ boosts_since_activation' =
          IF aggressive_mode THEN boosts_since_activation ELSE 0
    /\ device_pc' = "alert"
    /\ UNCHANGED <<auto_mode, online, fan_speed, alerts_sent>>
    /\ UNCHANGED trackerVars
    /\ deviceFrame

\* _trigger_aggressive_mode, lines 338-351: the count is read for the banner
\* and send_aggressive_mode_alert posts the alert
TriggerAlert ==
    /\ device_pc = "alert"
    /\ cough_events' = get_recent_event_count(cough_events)
    /\ ret_count' = Len(cough_events')
    /\ ret_should' = FALSE
    /\ last_op' = "count"
    /\ follows_reset' = FALSE
    /\ alerts_sent' = alerts_sent + 1
    /\ alerts_since_activation' = alerts_since_activation + 1
    /\ device_pc' = "boost"
    /\ UNCHANGED <<now, event, total_events, aggressive_mode_triggered,
                   recorded, announcements>>
    /\ UNCHANGED <<aggressive_mode, auto_mode, online, fan_speed,
                   boosts_since_activation>>
    /\ deviceFrame

\* _trigger_aggressive_mode, lines 353-356: the fan boost, if the device is
\* online and in auto mode
TriggerBoost ==
    /\ device_pc = "boost"
    /\ IF online /\ auto_mode
       THEN /\ fan_speed' = Min(fan_speed_max,
                                fan_speed + aggressive_mode_fan_boost)
            /\ boosts_since_activation' = boosts_since_activation + 1
       ELSE UNCHANGED <<fan_speed, boosts_since_activation>>
    /\ device_pc' = "idle"
    /\ UNCHANGED <<aggressive_mode, auto_mode, online, alerts_sent,
                   alerts_since_activation>>
    /\ UNCHANGED trackerVars
    /\ deviceFrame

NextDevice ==
    \/ AutoModeOn
    \/ AutoModeOff
    \/ PowerCommand
    \/ Tick
    \/ DeviceDetect
    \/ HandleCoughEvent
    \/ TriggerSet
    \/ TriggerAlert
    \/ TriggerBoost

SpecDevice == Init /\ [][NextDevice]_vars

(***************************************************************************)
(* Properties of the rolling buffer (SpecBuffer)                           *)
(***************************************************************************)

\* the last k elements of a sequence
LastK(seq, k) == SubSeq(seq, Len(seq) - k + 1, Len(seq))

\* C1: after any sequence of pushes the buffer holds at most
\* deque_maxlen_blocks blocks, and they are exactly the last
\* min(n, capacity) blocks pushed, in push order (the oldest is dropped).
C1_RollingBuffer ==
    /\ Len(display_buffer) <= deque_maxlen_blocks
    /\ display_buffer =
           LastK(pushed, Min(Len(pushed), deque_maxlen_blocks))

\* more blocks were pushed than fit, and the first one pushed is gone
C1_Witness ==
    /\ Len(pushed) = deque_maxlen_blocks + MaxExtraPushes
    /\ Len(display_buffer) = deque_maxlen_blocks
    /\ display_buffer[1] # pushed[1]

(***************************************************************************)
(* Properties of the event tracker (SpecTracker)                           *)
(***************************************************************************)

\* the recorded events that lie inside the tracking window at `now`
InWindow == SelectSeq(recorded,
                      LAMBDA e : e.timestamp >= now - tracking_window)

\* C2: right after a record or a count query every retained event has
\* timestamp >= now - tracking_window, and only events strictly older than
\* that were evicted: the deque is exactly the recorded events inside the
\* window, the one at the boundary included.
C2_WindowInvariant ==
    last_op \in {"track", "count"} =>
        /\ \A i \in DOMAIN cough_events :
              cough_events[i].timestamp >= now - tracking_window
        /\ cough_events = InWindow

\* an older event was evicted while one exactly at the boundary was kept
C2_Witness ==
    /\ last_op \in {"track", "count"}
    /\ Len(cough_events) < Len(recorded)
    /\ cough_events # <<>>
    /\ cough_events[1].timestamp = now - tracking_window

\* C3: the latch is set by the first record at which the retained count
\* reaches the threshold, only a reset clears it (ageing out does not), and
\* the trigger is announced at most once between two resets.
C3_Latch ==
    /\ [](last_op = "track" /\ Len(cough_events) >= aggressive_threshold
             => aggressive_mode_triggered)
    /\ [][aggressive_mode_triggered /\ last_op' # "reset"
             => aggressive_mode_triggered']_vars
    /\ [][~aggressive_mode_triggered /\ aggressive_mode_triggered'
             => /\ last_op' = "track"
                /\ Len(cough_events') >= aggressive_threshold
                /\ announcements' = announcements + 1]_vars
    /\ [](announcements <= 1)

\* the latch is still set after the events that set it have aged out
C3_Witness ==
    /\ aggressive_mode_triggered
    /\ announcements = 1
    /\ last_op = "count"
    /\ ret_count < aggressive_threshold

\* C4: should_trigger_aggressive_mode() returns true exactly when the
\* number of recorded events still inside the window is >= the threshold.
C4_ShouldTrigger ==
    last_op = "should" =>
        (ret_should <=> Len(InWindow) >= aggressive_threshold)

\* the threshold was reached (the latch shows it) and the query is false
\* again because the events aged out
C4_Witness ==
    /\ last_op = "should"
    /\ ~ret_should
    /\ aggressive_mode_triggered
    /\ Len(recorded) >= aggressive_threshold

\* C5 as claimed: the should_trigger_aggressive_mode() that immediately
\* follows reset_aggressive_mode() returns false.
C5_Original ==
    (last_op = "should" /\ follows_reset) => ~ret_should

\* C5 as the code has it: the reset clears the latch and nothing else, so
\* the query that follows still answers by the in-window count.
C5_ResetKeepsCount ==
    /\ [][last_op' = "reset"
             => /\ ~aggressive_mode_triggered'
                /\ cough_events' = cough_events]_vars
    /\ []((last_op = "should" /\ follows_reset)
             => /\ ~aggressive_mode_triggered
                /\ ret_should <=> Len(InWindow) >= aggressive_threshold)

\* the query right after a reset is true: the events are still in the window
C5_Witness ==
    /\ last_op = "should"
    /\ follows_reset
    /\ ret_should
    /\ ~aggressive_mode_triggered

(***************************************************************************)
(* Properties of the VAD and the block detector (SpecVAD)                  *)
(***************************************************************************)

\* a check_activity result is on record
Checked == check_in # NoChunk

\* C7: while the VAD is uncalibrated check_activity answers
\* (False, SILENCE, 0.0) whatever the chunk, and a process_block call made
\* before calibration has completed reports no event.
C7_UncalibratedSilent ==
    /\ []((~is_calibrated /\ Checked) => check_ret = <<FALSE, SILENCE, 0>>)
    /\ [][(~is_calibrated /\ stats' # stats) => ~ret'.should_save]_vars

\* an energetic mid-zcr chunk was probed while calibration was under way
C7_Witness ==
    /\ ~is_calibrated
    /\ calibration_samples # <<>>
    /\ Checked
    /\ check_in.energy2 > 0
    /\ check_in.zcr >= vad_zcr_min /\ check_in.zcr <= vad_zcr_max

\* C8: is_calibrated goes from false to true once and never back;
\* energy_threshold is assigned at that step, as baseline_rms times
\* vad_energy_multiplier of the calibration samples, and never again.
C8_CalibratedOnce ==
    /\ [][is_calibrated
             => /\ is_calibrated'
                /\ vad_energy_threshold' = vad_energy_threshold
                /\ calibrations' = calibrations]_vars
    /\ [][(~is_calibrated /\ is_calibrated')
             => /\ ~vad_energy_threshold'.none
                /\ calibrations' = 1
                /\ vad_energy_threshold'.num * 100 * Len(calibration_samples)
                     = vad_energy_multiplier_x10 * vad_energy_multiplier_x10
                         * SumMs(calibration_samples)
                         * vad_energy_threshold'.den]_vars
    /\ [](~is_calibrated
             => vad_energy_threshold = NoThreshold /\ calibrations = 0)

\* blocks went through the detector after the calibration step
C8_Witness ==
    /\ is_calibrated
    /\ calibrations = 1
    /\ vad_energy_threshold.num > 0
    /\ stats.blocks_processed > Len(calibration_samples) + 1
    /\ stats.vad_triggered > 0

\* energy >= energy_threshold, on the squares
EnergyReachesThreshold(chunk) ==
    chunk.energy2 * vad_energy_threshold.den >= vad_energy_threshold.num

\* C9: once calibrated, check_activity follows the ordered rules
\* silence (energy < threshold), noise (zcr < zcr_min), speech
\* (zcr > zcr_max), else respiratory event with min(energy/threshold, 1.0);
\* equal values fall to the later rule and is_active is true exactly for
\* SPEECH and RESPIRATORY_EVENT.
C9_OrderedRules ==
    (is_calibrated /\ Checked) =>
        /\ ~EnergyReachesThreshold(check_in)
              => check_ret = <<FALSE, SILENCE, 0>>
        /\ (EnergyReachesThreshold(check_in) /\ check_in.zcr < vad_zcr_min)
              => check_ret = <<FALSE, NOISE, 20>>
        /\ (EnergyReachesThreshold(check_in) /\ check_in.zcr >= vad_zcr_min
               /\ check_in.zcr > vad_zcr_max)
              => check_ret = <<TRUE, SPEECH, 60>>
        /\ (EnergyReachesThreshold(check_in) /\ check_in.zcr >= vad_zcr_min
               /\ check_in.zcr <= vad_zcr_max)
              => /\ check_ret[1] /\ check_ret[2] = RESPIRATORY_EVENT
                 /\ check_ret[3] = min_ratio_1(check_in.energy2,
                                               vad_energy_threshold)
        /\ check_ret[1] <=> check_ret[2] \in {SPEECH, RESPIRATORY_EVENT}

\* energy exactly at a non-zero threshold and zcr exactly at zcr_min
C9_Witness ==
    /\ is_calibrated
    /\ Checked
    /\ vad_energy_threshold.num > 0
    /\ check_in.energy2 * vad_energy_threshold.den = vad_energy_threshold.num
    /\ check_in.zcr = vad_zcr_min
    /\ check_ret = <<TRUE, RESPIRATORY_EVENT, 100>>

\* C10 as claimed: once calibrated, zcr above zcr_max means SPEECH whatever
\* the energy.
C10_Original ==
    (is_calibrated /\ Checked /\ check_in.zcr > vad_zcr_max)
        => check_ret[2] = SPEECH

\* C10 as the code has it: once calibrated, zcr above zcr_max means SPEECH
\* when the energy reaches energy_threshold and SILENCE when it does not.
C10_SpeechAboveThreshold ==
    (is_calibrated /\ Checked /\ check_in.zcr > vad_zcr_max) =>
        IF EnergyReachesThreshold(check_in)
        THEN check_ret[2] = SPEECH
        ELSE check_ret[2] = SILENCE

\* a high-zcr chunk at or over a non-zero threshold was classified SPEECH
C10_Witness ==
    /\ is_calibrated
    /\ Checked
    /\ vad_energy_threshold.num > 0
    /\ check_in.zcr > vad_zcr_max
    /\ EnergyReachesThreshold(check_in)
    /\ check_ret[2] = SPEECH

(***************************************************************************)
(* Properties of the capture program (SpecCapture)                         *)
(***************************************************************************)

\* C18: every read and write of the shared rolling buffer (the callback's
\* append, a consumer's snapshot, a clear or a final read by another
\* thread) is made while the accessing thread holds the buffer lock.
C18_BufferAccessLocked == buffer_access.locked

\* C19: a run of the audio-driver callback appends the incoming block to
\* the rolling buffer and does nothing else: the calibration, the cooldown,
\* the statistics and the save queue are as they were before it.
C19_CallbackOnlyAppends ==
    [][ProcessBlock
          => UNCHANGED <<calibration_samples, is_calibrated,
                         vad_energy_threshold, event_cooldown, stats,
                         save_queue>>]_vars

(***************************************************************************)
(* Properties of the spectral classifier (SpecClassifier)                  *)
(***************************************************************************)

\* the four rules of the heuristic, as the specification words them
LowFreqRule(f) == f # NaN /\ f > 40
CentroidRule(c) == c # NaN /\ c > 200 /\ c < 800
PeakRule(p) == p > 100 /\ p < 600
RolloffRule(r) == r < 2000
Weight(fires, w) == IF fires THEN w ELSE 0

\* C11: the score is the sum of the weights of the rules that fire (0.3
\* low-frequency ratio > 0.4, 0.3 centroid strictly inside (200, 800), 0.2
\* peak strictly inside (100, 600), 0.2 rolloff < 2000); it lies in [0, 1]
\* and is 1.0 only when all four rules fire.
C11_ScoreIsWeightSum ==
    clf_features # NoFeatures =>
        LET r1 == LowFreqRule(clf_features.low_freq_energy)
            r2 == CentroidRule(clf_features.spectral_centroid)
            r3 == PeakRule(clf_features.peak_freq)
            r4 == RolloffRule(clf_features.spectral_rolloff)
        IN  /\ clf_score = Weight(r1, 30) + Weight(r2, 30)
                            + Weight(r3, 20) + Weight(r4, 20)
            /\ clf_score >= 0 /\ clf_score <= 100
            /\ clf_score = 100 => (r1 /\ r2 /\ r3 /\ r4)

\* every feature sits on a rule's boundary, on the side that does not fire
C11_Witness ==
    /\ clf_features = [low_freq_energy |-> 40, spectral_centroid |-> 800,
                       peak_freq |-> 100, spectral_rolloff |-> 2000]
    /\ clf_score = 0

(***************************************************************************)
(* Properties of the detection loop (SpecLoop)                             *)
(***************************************************************************)

\* C6: once a window has yielded an event, no further CoughEvent is
\* produced during the cooldown (one second's worth of hops): two events are
\* always more than cooldown_hops hops apart.
C6_Cooldown == last_event_gap > cooldown_hops

\* C12: when feature extraction or inference raises for a window, the hop
\* counts as no event (the tracker, the callback's query, the save queue
\* and the detection counter stay as they were) and the loop goes back to
\* its head; the thread ends only from the head of the loop with is_running
\* false.
C12_BadWindowSkipped ==
    /\ [][window_errors' # window_errors
             => /\ pc = "predict" /\ pc' = "while"
                /\ is_running' = is_running
                /\ total_coughs_detected' = total_coughs_detected
                /\ save_queue' = save_queue /\ enqueued' = enqueued
                /\ event' = event /\ result' = result
                /\ UNCHANGED <<cough_events, total_events, recorded,
                               aggressive_mode_triggered, announcements,
                               last_op, ret_count, ret_should>>]_vars
    /\ [][(pc # "done" /\ pc' = "done")
             => (pc = "while" /\ ~is_running)]_vars

\* after a window whose inference raised, a later window was detected as a
\* cough and is about to be queued
C12_Witness ==
    /\ window_errors > 0
    /\ pc = "save"
    /\ is_running
    /\ total_coughs_detected > 0

\* C17: the window a hop evaluates is the tail of the buffer as it was when
\* the snapshot was copied, whatever the audio callback has pushed and
\* evicted since.
C17_SnapshotIsolated ==
    [][total_windows_processed' # total_windows_processed
          => window' = tail_window(concatenate(snapshot_buffer))]_vars

\* a push that evicted the oldest block came between the snapshot and the
\* evaluation: the window is the snapshot's tail, not the live buffer's
C17_Witness ==
    /\ pc = "predict"
    /\ ~pushed_in_flight
    /\ Len(pushed) > deque_maxlen_blocks
    /\ display_buffer # snapshot_buffer
    /\ window = tail_window(concatenate(snapshot_buffer))
    /\ window # tail_window(concatenate(display_buffer))

\* C20: the detection thread holds buffer_lock only inside the with block
\* that copies the buffer; from the concatenation to the end of the hop the
\* lock is not its own, so a block arriving during inference is appended.
C20_LockOnlyForCopy ==
    /\ buffer_lock = "detection" => pc = "locked"
    /\ (pc \in {"window", "predict", "track", "count", "callback", "save"}
          /\ stream_active /\ Len(pushed) < MaxLoopPushes)
          => ENABLED StreamCallback

\* a block was appended while inference was in flight
C20_Witness ==
    /\ pc = "predict"
    /\ pushed_in_flight
    /\ display_buffer # snapshot_buffer

(***************************************************************************)
(* Properties of stop() and the save worker (SpecShutdown)                 *)
(***************************************************************************)

\* C13: when a join of stop() times out with the thread still running,
\* stop() reports a fatal shutdown condition to its caller.
C13_TimeoutReported ==
    (stop_pc = "returned"
        /\ (detection_join_timed_out \/ worker_join_timed_out))
       => stop_reported = "fatal"

\* C14: stop() always returns, whatever the detection thread and the save
\* worker are doing and however long they take.
C14_StopReturns == (stop_pc # "idle") ~> (stop_pc = "returned")

\* stop() has returned while inference is still in flight
C14_Witness ==
    /\ stop_pc = "returned"
    /\ pc = "predict"
    /\ detection_join_timed_out

\* C15: the worker takes the items in the order they were put; it ends only
\* on taking the stop signal, and by then every item put ahead of the
\* signal has been handled.
C15_FifoUntilPoison ==
    /\ Len(handled) <= Len(enqueued)
    /\ \A i \in DOMAIN handled : handled[i].item = enqueued[i]
    /\ worker_pc = "done"
          => /\ Len(enqueued) > Len(handled)
             /\ enqueued[Len(handled) + 1] = Poison
             /\ \A i \in 1..Len(handled) : enqueued[i] # Poison

\* two different detections were queued, handled in their order, and the
\* worker ended on the stop signal
C15_Witness ==
    /\ worker_pc = "done"
    /\ Len(handled) = 2
    /\ handled[1].item # handled[2].item
    /\ handled[1].item = enqueued[1]

\* a step in which the worker's write of an item failed
FailedWrite ==
    /\ Len(handled') = Len(handled) + 1
    /\ ~handled'[Len(handled')].written

\* C16: a failed write costs that item only: the worker is back at the
\* queue, the detection thread's state is untouched, and the worker ends
\* only by taking the stop signal, never in a step that handles an item.
C16_WriteFailureConfined ==
    /\ [][FailedWrite
             => /\ worker_pc' = "get"
                /\ save_queue' = Tail(save_queue)
                /\ UNCHANGED <<pc, is_running, window, result,
                               total_windows_processed,
                               total_coughs_detected, cough_events,
                               total_events, display_buffer>>]_vars
    /\ [][(worker_pc # "done" /\ worker_pc' = "done")
             => /\ handled' = handled
                /\ save_queue # <<>> /\ Head(save_queue) = Poison]_vars

\* the first item's write failed, the next item was written, and then the
\* worker ended on the stop signal
C16_Witness ==
    /\ worker_pc = "done"
    /\ Len(handled) = 2
    /\ ~handled[1].written
    /\ handled[2].written

(***************************************************************************)
(* Properties of the tracker's lock (SpecTrackerLock)                      *)
(***************************************************************************)

\* C21: every operation that writes tracker state (the event deque, the
\* total count, the aggressive latch) makes its write while its own thread
\* holds events_lock.  The latch reset does not.
C21_MutationsUnderLock ==
    tracker_access.locked

(***************************************************************************)
(* Properties of start() and stop() (SpecLifecycle)                        *)
(***************************************************************************)

\* C22: when the stream cannot be opened or started, start() ends with the
\* exception after a single attempt, the new detector has no detection
\* thread, and is_running is false on the detector and on the wrapper.
C22_StartFailurePropagates ==
    last_start.failed =>
        /\ last_start.reported = "raised"
        /\ last_start.opens = 1
        /\ pc = "idle"
        /\ ~is_running
        /\ ~wrapper_is_running
        /\ ~stream_active

\* a start() has failed after an earlier start/stop round
C22_Witness ==
    /\ last_start.failed
    /\ stop_pc = "returned"
    /\ starts = 2

\* C36: after a start() that failed once the save worker had been launched,
\* the detector has no thread left running: no detection thread, and the
\* save worker has ended instead of waiting on its empty queue.
C36_NoThreadAfterFailedStart ==
    last_start.failed
        => /\ ~thread_alive
           /\ worker_pc \in {"idle", "done"}

\* C25: at most one detection-loop thread is alive at any time, whatever
\* the sequence of start() and stop() calls.
C25_OneDetectionThread ==
    lingering_threads + (IF thread_alive THEN 1 ELSE 0) <= 1

(***************************************************************************)
(* Properties of the two-stage pipeline (SpecPipeline)                     *)
(***************************************************************************)

\* C23: predict runs the type classifier only when the detection
\* probability reaches the confidence threshold, and cough_type and
\* classification_confidence are non-null exactly when is_cough is true.
C23_ClassifierOnlyOnPositive ==
    /\ pipe_result.is_cough <=> (pipe_prob >= confidence_threshold)
    /\ pipe_result.detection_confidence = pipe_prob
    /\ (classifier_calls = 1) <=> pipe_result.is_cough
    /\ (classifier_calls = 0) <=> ~pipe_result.is_cough
    /\ (pipe_result.cough_type # Null) <=> pipe_result.is_cough
    /\ (pipe_result.classification_confidence # Null)
           <=> pipe_result.is_cough

\* a window exactly at the threshold was classified: the lowest
\* probability that reaches the second stage
C23_Witness ==
    /\ pipe_prob = confidence_threshold
    /\ pipe_result.is_cough
    /\ pipe_result.cough_type = Some("wet")

(***************************************************************************)
(* Properties of the loop's cancellation (SpecLoop)                        *)
(***************************************************************************)

\* C24: once stop() has cleared is_running, the detection thread, when it
\* stands at the top of its loop, takes neither a wait step nor the lock
\* for a new window: it can only end.  The evaluation it was in when the
\* flag was cleared is the last one.
C24_NoNewWindowAfterStop ==
    [][(~is_running /\ pc = "while")
          => /\ pc' \in {"while", "done"}
             /\ blocks_waited' = blocks_waited
             /\ buffer_lock' = buffer_lock
             /\ total_windows_processed' = total_windows_processed]_vars

\* stop() cleared the flag during an evaluation, its join gave up, and the
\* thread ended after completing that evaluation
C24_Witness ==
    /\ ~is_running
    /\ pc = "done"
    /\ detection_join_timed_out
    /\ total_windows_processed > 0
    /\ result.is_cough

(***************************************************************************)
(* Properties of the order of record, callback and save (SpecLoop)         *)
(***************************************************************************)

\* the windows put on the save queue so far
WindowsEnqueued ==
    Cardinality({i \in DOMAIN enqueued : enqueued[i] # Poison})

LastBlock == event_buffer'[Len(event_buffer')]

\* one second's worth of blocks
OneSecondOfBlocks == AudioConfig_sample_rate \div AudioConfig_block_size

\* C27: the call that reports an event sets the cooldown to one second's
\* worth of blocks; while the cooldown is positive every call reports no
\* event whatever the block, does not reach the VAD and lowers the counter
\* by exactly one; the counter never goes below zero, and at zero the block
\* is gated normally again.
C27_CooldownSilencesOneSecond ==
    [][(stats'.blocks_processed = stats.blocks_processed + 1)
          => /\ event_cooldown > 0
                   => /\ ret' = ReturnNoEvent
                      /\ event_cooldown' = event_cooldown - 1
                      /\ stats'.vad_triggered = stats.vad_triggered
                      /\ save_queue' = save_queue
             /\ ret'.should_save
                   => /\ event_cooldown = 0
                      /\ event_cooldown' = OneSecondOfBlocks
             /\ (event_cooldown = 0 /\ ~ret'.should_save)
                   => event_cooldown' = 0
             /\ (event_cooldown = 0 /\ is_calibrated)
                   => check_ret' = check_activity(LastBlock, is_calibrated,
                                                  vad_energy_threshold)
             /\ event_cooldown' >= 0]_vars

\* an event, its cooldown run down by bursts, and a second event on the
\* first block after it
C27_Witness ==
    /\ stats.events_saved = 2
    /\ event_cooldown = cooldown_blocks
    /\ Len(save_queue) = 2

(***************************************************************************)
(* Properties of the order of the detector's stages (SpecVAD)              *)
(***************************************************************************)

\* check_ret when the call did not reach vad.check_activity
NotChecked == <<FALSE, None, 0>>

\* C28: process_block reports an event only for a block met outside the
\* cooldown, after calibration completed, judged active and
\* RESPIRATORY_EVENT by the VAD and scored at least
\* segment_classifier_threshold, the stages being reached in that order; the
\* spectral classifier is not run for a block the VAD called SILENCE, NOISE
\* or SPEECH.
C28_StagesInOrder ==
    [][(stats'.blocks_processed = stats.blocks_processed + 1)
          => /\ ret'.should_save
                   => /\ event_cooldown = 0
                      /\ is_calibrated
                      /\ check_ret'[1]
                      /\ check_ret'[2] = RESPIRATORY_EVENT
                      /\ classifier_ran'
                      /\ ret'.metadata.classifier_score
                            >= segment_classifier_threshold
             /\ event_cooldown > 0
                   => /\ calibration_samples' = calibration_samples
                      /\ is_calibrated' = is_calibrated
                      /\ check_ret' = NotChecked
                      /\ ~classifier_ran'
             /\ ~is_calibrated
                   => /\ check_ret' = NotChecked
                      /\ ~classifier_ran'
             /\ classifier_ran'
                   => /\ check_ret'[1]
                      /\ check_ret'[2] = RESPIRATORY_EVENT
             /\ check_ret'[2] \in {SILENCE, NOISE, SPEECH}
                   => /\ ~classifier_ran'
                      /\ ~ret'.should_save]_vars

\* an event was reported after another active block had been turned away
C28_Witness ==
    /\ ret.should_save
    /\ classifier_ran
    /\ check_ret[2] = RESPIRATORY_EVENT
    /\ stats.vad_triggered = 2
    /\ stats.classifier_triggered = 1

(***************************************************************************)
(* Properties of the end of calibration (SpecVAD)                          *)
(***************************************************************************)

\* calibration_window seconds' worth of blocks has been accumulated
WindowAccumulated == ~calibration_incomplete(calibration_samples)

\* C29: calibration completes as soon as calibration_window seconds' worth
\* of blocks has been accumulated, with the baseline computed over exactly
\* those blocks, and every block arriving after them (outside a cooldown)
\* is passed to the VAD activity check.  In the code the block that
\* arrives next is spent on computing the baseline.
C29_CalibratedAtWindow ==
    /\ [](WindowAccumulated => is_calibrated)
    /\ [][(/\ stats'.blocks_processed = stats.blocks_processed + 1
           /\ WindowAccumulated
           /\ event_cooldown = 0)
             => /\ check_ret' # NotChecked
                /\ check_in' = LastBlock]_vars
    /\ [][(~is_calibrated /\ is_calibrated')
             => vad_energy_threshold'
                   = baseline_threshold(calibration_samples)]_vars

(***************************************************************************)
(* Properties of the loop's pace (SpecLoop)                                *)
(***************************************************************************)

\* time.sleep(0.1): one wait step, in tenths of a second
sleep_x10 == 1

\* C30: the loop body runs once per hop interval: when the thread begins a
\* window evaluation (it takes the buffer lock), the wait steps made since
\* the evaluation before it add up to at least hop_length.  In the code
\* hop_blocks wait steps are made, and hop_blocks counts audio blocks, not
\* tenths of a second.
C30_OncePerHop ==
    [][(pc = "while" /\ pc' = "locked")
          => blocks_waited * sleep_x10 >= hop_length_x10]_vars
(***************************************************************************)
(* Properties of the detection window (SpecLoop)                           *)
(***************************************************************************)

\* C31: a hop that leaves the window step either evaluates exactly the last
\* detection_samples samples of its snapshot, in their order, and counts one
\* window, or (snapshot shorter than a window) evaluates nothing and leaves
\* the count alone; a hop that found no block does the same, and the count
\* moves at no other step.
C31_WindowIsSnapshotTail ==
    [][LET full_buffer == concatenate(snapshot_buffer)
           n == Len(full_buffer)
       IN  /\ (pc = "window" /\ pc' # "window")
                => IF n < detection_samples
                   THEN /\ pc' = "while"
                        /\ window' = window
                        /\ result' = result
                        /\ total_windows_processed' = total_windows_processed
                   ELSE /\ Len(window') = detection_samples
                        /\ \A i \in 1..detection_samples :
                              window'[i] = full_buffer[n - detection_samples + i]
                        /\ total_windows_processed'
                              = total_windows_processed + 1
           /\ (pc = "locked" /\ Len(display_buffer) < 1 /\ pc' # "locked")
                => /\ pc' = "while"
                   /\ window' = window
                   /\ total_windows_processed' = total_windows_processed
           /\ total_windows_processed' # total_windows_processed
                => pc = "window"]_vars

\* a window was cut from a snapshot longer than a window whose head and tail
\* differ, after an earlier hop had found the buffer too short
C31_Witness ==
    /\ pc = "while"
    /\ total_windows_processed = 1
    /\ Len(pushed) > 1
    /\ Len(concatenate(snapshot_buffer)) > detection_samples
    /\ window = SubSeq(concatenate(snapshot_buffer),
                       Len(concatenate(snapshot_buffer)) - detection_samples + 1,
                       Len(concatenate(snapshot_buffer)))
    /\ window # SubSeq(concatenate(snapshot_buffer), 1, detection_samples)
(***************************************************************************)
(* Properties of the detection threshold (SpecPipeline)                    *)
(***************************************************************************)

\* C32: the result of a prediction is positive exactly when the detection
\* network's probability reaches DetectionConfig.detection_confidence, the
\* value given by --confidence.
C32_ThresholdIsDetectionConfidence ==
    pipe_result # NoPipelineResult
        => (pipe_result.is_cough
              <=> pipe_prob >= config_detection_confidence)
(***************************************************************************)
(* Properties of the save queue at shutdown (SpecShutdown)                 *)
(***************************************************************************)

\* C33: every window put on the save queue is taken off it by the save
\* worker, the window of a detection in flight during stop() included: the
\* worker never ends while a window is still queued, so none is stranded
\* behind the stop signal.
C33_NoWindowStranded ==
    worker_pc = "done"
        => \A i \in DOMAIN save_queue : save_queue[i] = Poison
\* C34: once stop() has returned, the stopped detector does nothing more that
\* can be seen from outside: no CoughEvent is recorded by the tracker, the
\* on_event callback is not called, and nothing is put on the save queue.
C34_NoEffectAfterStopReturned ==
    [][stop_pc = "returned"
          => /\ recorded' = recorded
             /\ total_events' = total_events
             /\ ~(pc = "callback" /\ pc' # "callback")
             /\ enqueued' = enqueued]_vars
(***************************************************************************)
(* Properties of the device's aggressive mode (SpecDevice)                 *)
(***************************************************************************)

StatsOrdered ==
    /\ stats.events_saved = stats.classifier_triggered
    /\ stats.classifier_triggered <= stats.vad_triggered
    /\ stats.vad_triggered <= stats.blocks_processed
    /\ stats.blocks_processed = process_calls

\* C37: at every moment events_saved = classifier_triggered <= vad_triggered
\* <= blocks_processed, blocks_processed is the number of process_block
\* calls made, and no counter ever goes down.
C37_StatsInvariants ==
    /\ StatsOrdered
    /\ [][/\ StatsOrdered'
          /\ \A key \in DOMAIN stats : stats'[key] >= stats[key]]_vars

\* an event has been saved after a block that passed the VAD without being
\* saved, and blocks were processed that did not pass it
C37_Witness ==
    /\ stats.events_saved = 1
    /\ stats.vad_triggered > stats.classifier_triggered
    /\ stats.blocks_processed > stats.vad_triggered + 1
    /\ ret.should_save
(***************************************************************************)
(* Properties of the VAD confidence (SpecVAD)                              *)
(***************************************************************************)

\* C38: whenever check_activity answers RESPIRATORY_EVENT, the confidence it
\* gives is exactly 1.0: the energy has passed the threshold, so the ratio
\* is never below 1.0 and the minimum is 1.0.  The vad_confidence of every
\* saved event is therefore 1.0 too.
C38_RespiratoryConfidenceIsOne ==
    /\ (Checked /\ check_ret[2] = RESPIRATORY_EVENT) => check_ret[3] = 100
    /\ ret.should_save => ret.metadata.vad_confidence = 100

\* after a calibration on digital silence the threshold is 0.0 and a chunk
\* with energy and a medium zcr was answered with confidence 1.0
C38_Witness ==
    /\ is_calibrated
    /\ Checked
    /\ vad_energy_threshold.num = 0
    /\ check_in.energy2 > 0
    /\ check_ret = <<TRUE, RESPIRATORY_EVENT, 100>>

====
